---- MODULE Spec2Model ----
(***************************************************************************)
(* Model of the DFRobot C1001 driver (src/dfrobot_c1001/src/lib.rs):       *)
(* the frame codec inside C1001::xfer (encode, write, byte-by-byte decode  *)
(* loop with a wall-clock deadline) and the facade operations built on it. *)
(* Rust indices are 0-based, TLA+ sequences 1-based: rx[k] in the source   *)
(* is rx[k + 1] here.  Time is counted in whole seconds.                   *)
(***************************************************************************)
EXTENDS Integers, Sequences, FiniteSets, TLC

VARIABLES
    op,            \* facade operation in progress: "none", "xfer", "config_work_mode"
    opc,           \* position inside the facade operation
    mode,          \* config_work_mode's argument (Mode as u8), 0 when unused
    value,         \* dm_fall_config's argument value: u32, 0 when unused
    poll,          \* poll_sleep_data: the fields bound so far, in order
    con, cmd, data,\* xfer's arguments
    tx,            \* everything written to the port, in order
    sleeps,        \* durations of thread::sleep calls, in order
    stream,        \* bytes the port will deliver next
    cycle,         \* bytes the port delivers again and again once stream is empty
    rx,            \* xfer's receive buffer
    header_found,  \* xfer's local
    payload_len,   \* xfer's local
    start,         \* xfer's local: Instant::now() taken when decoding begins
    now,           \* wall clock
    pc,            \* position inside xfer: idle, write, loop, read, ret, done
    xres,          \* outcome of the last xfer
    resp,          \* frame returned by the last xfer
    ret,           \* outcome of the facade operation
    nxfer,         \* number of request frames written by xfer
    ndecoded,      \* number of xfer calls that returned Ok
    scen,          \* the input chosen for this run
    rd,            \* what port.read gave in this turn of xfer's loop
    buffer,        \* SleepDataLogger.buffer: samples appended and not yet flushed
    datasets,      \* the per-field datasets of the HDF5 group: rows written
    dropped,       \* the SleepDataLogger has been dropped
    lres,          \* the last SleepDataLogger operation and what it did
    nappend,       \* number of samples passed to append so far
    nfail,         \* number of dataset operations that failed so far
    cancel,        \* sleep_tracker's CancellationToken has been cancelled
    main_pc,       \* position of sleep_tracker: select, join_sensor, join_audio, returned
    sensor_pc,     \* position of the sensor_loop task
    audio_pc,      \* position of the audio_loop task
    data_logger,   \* holder of the data_logger mutex: free, sensor, audio
    sensor_reader, \* holder of the sensor_reader mutex: free, sensor
    nticks,        \* interval ticks taken by sensor_loop so far
    recs,          \* the recordings audio_loop started, in order, and their fate
    rec,           \* number of the recording in progress or in hand, 0 for none
    audio,         \* rows of the "audio" dataset: recordings logged
    config,        \* MCP342x.config
    adc_pc,        \* position inside raw_read: idle, loop, done
    adc_buf,       \* raw_read's buf after the last write_read
    adc_ret        \* what raw_read returned

driverVars == <<op, opc, mode, value, poll, con, cmd, data, tx, sleeps, stream, cycle, rx,
                header_found, payload_len, start, now, pc, xres, resp, ret,
                nxfer, ndecoded, scen, rd>>
logVars == <<buffer, datasets, dropped, lres, nappend, nfail>>
taskVars == <<cancel, main_pc, sensor_pc, audio_pc, data_logger, sensor_reader,
              nticks, recs, rec, audio>>
adcVars == <<config, adc_pc, adc_buf, adc_ret>>

vars == <<op, opc, mode, value, poll, con, cmd, data, tx, sleeps, stream, cycle, rx,
          header_found, payload_len, start, now, pc, xres, resp, ret,
          nxfer, ndecoded, scen, rd, buffer, datasets, dropped, lres,
          nappend, nfail, cancel, main_pc, sensor_pc, audio_pc, data_logger,
          sensor_reader, nticks, recs, rec, audio, config, adc_pc, adc_buf,
          adc_ret>>

(***************************************************************************)
(* Bounds of the model.                                                    *)
(***************************************************************************)
MaxPayload == 2      \* payloads of every length 0..MaxPayload over PayloadBytes
LongLen    == 257    \* one payload long enough to use both length bytes
MaxNoise   == 3      \* noise prefixes of every length 0..MaxNoise
MaxElapsed == 6      \* the clock stops advancing this long after start
MaxReply   == 6      \* reply payloads of every length 0..MaxReply
MaxBuf     == 3      \* checksum on its own: slices of every length 0..MaxBuf
MaxSamples == 14     \* samples passed to SleepDataLogger::append in one run
MaxFail    == 1      \* dataset operations that fail in one run
MaxTicks   == 2      \* interval ticks sensor_loop takes in one run
MaxRecordings == 2   \* recordings audio_loop starts in one run
MaxPollFail == 1     \* reads of one poll that the sensor leaves unanswered or corrupts

(***************************************************************************)
(* Program constants.                                                      *)
(***************************************************************************)
HEADER == <<83, 89>>          \* 0x53 0x59 "SY"
TAIL   == <<84, 67>>          \* 0x54 0x43 "TC"
TIMEOUT_TOTAL == 5            \* seconds
SENSOR_ERROR  == 245          \* 0xF5
MODE_SETTLE   == 10           \* seconds slept after the raw mode-set frame
BOOT_DELAY    == 6

Byte == 0 .. 255

(***************************************************************************)
(* Pure helpers of the codec.                                              *)
(***************************************************************************)
\* buf.iter().fold(0u8, |acc, &b| acc.wrapping_add(b)): wrapping_add is addition
\* modulo 256, so the fold is the sum of the bytes modulo 256; the sum is taken
\* by halves to keep the evaluation shallow on long buffers.
\* as WrappingSum, with saturating_add in place of wrapping_add
RECURSIVE SaturatingSum(_, _, _)
SaturatingSum(buf, lo, hi) ==
    LET Min(a, b) == IF a < b THEN a ELSE b
    IN  IF lo > hi THEN 0
        ELSE IF lo = hi THEN buf[lo] % 256
        ELSE Min(255, SaturatingSum(buf, lo, (lo + hi) \div 2)
                        + SaturatingSum(buf, (lo + hi) \div 2 + 1, hi))

RECURSIVE WrappingSum(_, _, _)
WrappingSum(buf, lo, hi) ==
    IF lo > hi THEN 0
    ELSE IF lo = hi THEN buf[lo] % 256
    ELSE (WrappingSum(buf, lo, (lo + hi) \div 2)
          + WrappingSum(buf, (lo + hi) \div 2 + 1, hi)) % 256

checksum(buf) == WrappingSum(buf, 1, Len(buf))

\* xfer's encode half: header, con, cmd, len hi, len lo, data, checksum, tail.
\* as Encode, with the checksum taken over the bytes after the header only
EncodeSumAfterHeader(c, k, d) ==
    LET len  == Len(d)
        body == HEADER \o <<c, k, (len \div 256) % 256, len % 256>> \o d
    IN  body \o <<checksum(SubSeq(body, 3, 6 + len))>> \o TAIL

Encode(c, k, d) ==
    LET len  == Len(d)
        body == HEADER \o <<c, k, (len \div 256) % 256, len % 256>> \o d
    IN  body \o <<checksum(SubSeq(body, 1, 6 + len))>> \o TAIL

\* the literal frame config_work_mode writes
ModeSetFrameEncoded(m) == Encode(2, 8, <<m>>)
ModeSetFrame(m) == <<83, 89, 2, 8, 0, 1, m, 0, 84, 67>>

TimedOutAtBound(elapsed) == elapsed >= TIMEOUT_TOTAL
TimedOutLate(elapsed) == elapsed > TIMEOUT_TOTAL + 1
TimedOutNever(elapsed) == FALSE
\* start.elapsed() > TIMEOUT_TOTAL
TimedOut(elapsed) == elapsed > TIMEOUT_TOTAL

PayloadLenLowOnly(b) == b[6]
\* ((rx[4] as usize) << 8) | rx[5] as usize
PayloadLen(b) == b[5] * 256 + b[6]

\* the payload of a frame: the bytes from offset 6 up to cs_index = 6 + length
FramePayload(f) == SubSeq(f, 7, 6 + PayloadLen(f))

TailPresentLastOnly(b) == b[Len(b)] = TAIL[2]
\* rx[rx.len() - 2..] == TAIL
TailPresent(b) == SubSeq(b, Len(b) - 1, Len(b)) = TAIL

\* !(rx[2] != con || rx[3] != cmd)
IsOursAlways(b, c, k) == TRUE
IsOurs(b, c, k) == ~(b[3] # c \/ b[4] # k)

ChecksumValidAlways(b, pl) == TRUE
\* cs == Self::checksum(&rx[..cs_index]) with cs_index = 6 + payload_len
ChecksumValid(b, pl) == b[6 + pl + 1] = checksum(SubSeq(b, 1, 6 + pl))

\* rx[0] == 0xF5
SensorFailure(b) == b[1] = SENSOR_ERROR

(***************************************************************************)
(* One iteration of the decode loop after a byte has been pushed, as a     *)
(* function of xfer's locals.  out is "continue" or the returned outcome.  *)
(***************************************************************************)
\* the match on rx.len()
\* as MatchLen, but a first header byte met later in the frame restarts it
MatchLenResync(b, byte, hf, pl) ==
    CASE Len(b) = 1 -> [rx |-> IF byte # HEADER[1] THEN <<>> ELSE b,
                        header_found |-> hf, payload_len |-> pl]
      [] Len(b) = 2 -> [rx |-> IF byte = HEADER[2] THEN b ELSE <<>>,
                        header_found |-> (byte = HEADER[2]), payload_len |-> pl]
      [] Len(b) = 6 -> [rx |-> b, header_found |-> hf, payload_len |-> PayloadLen(b)]
      [] OTHER      -> IF byte = HEADER[1]
                       THEN [rx |-> <<byte>>, header_found |-> FALSE, payload_len |-> pl]
                       ELSE [rx |-> b, header_found |-> hf, payload_len |-> pl]

MatchLen(b, byte, hf, pl) ==
    CASE Len(b) = 1 -> [rx |-> IF byte # HEADER[1] THEN <<>> ELSE b,
                        header_found |-> hf, payload_len |-> pl]
      [] Len(b) = 2 -> [rx |-> IF byte = HEADER[2] THEN b ELSE <<>>,
                        header_found |-> (byte = HEADER[2]), payload_len |-> pl]
      [] Len(b) = 6 -> [rx |-> b, header_found |-> hf, payload_len |-> PayloadLen(b)]
      [] OTHER      -> [rx |-> b, header_found |-> hf, payload_len |-> pl]

DropFrameRestart(m, st, t) ==
    [rx |-> <<>>, header_found |-> FALSE, payload_len |-> m.payload_len,
     start |-> t, out |-> "continue"]
\* "nope - drop it and keep waiting": rx.clear(); header_found = false; continue
DropFrame(m, st, t) ==
    [rx |-> <<>>, header_found |-> FALSE, payload_len |-> m.payload_len,
     start |-> st, out |-> "continue"]

\* as CheckFrame, but the frame is taken as complete one byte late, its tail
\* looked for where the length bytes put it
CheckFrameOneMore(m, c, k, st, t) ==
    LET keep(o) == [rx |-> m.rx, header_found |-> m.header_found,
                    payload_len |-> m.payload_len, start |-> st, out |-> o]
    IN  IF m.header_found /\ Len(m.rx) >= 10 + m.payload_len
        THEN IF ~TailPresent(SubSeq(m.rx, 1, 9 + m.payload_len)) THEN keep("BadHeader")
             ELSE IF ~IsOurs(m.rx, c, k) THEN DropFrame(m, st, t)
             ELSE IF ~ChecksumValid(m.rx, m.payload_len) THEN keep("Checksum")
             ELSE IF SensorFailure(m.rx) THEN keep("SensorError")
             ELSE keep("Ok")
        ELSE keep("continue")

\* as CheckFrame, with the group/command filter ahead of the tail test
CheckFrameFilterFirst(m, c, k, st, t) ==
    LET keep(o) == [rx |-> m.rx, header_found |-> m.header_found,
                    payload_len |-> m.payload_len, start |-> st, out |-> o]
    IN  IF m.header_found /\ Len(m.rx) >= 9 + m.payload_len
        THEN IF ~IsOurs(m.rx, c, k) THEN DropFrame(m, st, t)
             ELSE IF ~TailPresent(m.rx) THEN keep("BadHeader")
             ELSE IF ~ChecksumValid(m.rx, m.payload_len) THEN keep("Checksum")
             ELSE IF SensorFailure(m.rx) THEN keep("SensorError")
             ELSE keep("Ok")
        ELSE keep("continue")

\* as CheckFrame, with the checksum verified ahead of the group/command filter
CheckFrameChecksumFirst(m, c, k, st, t) ==
    LET keep(o) == [rx |-> m.rx, header_found |-> m.header_found,
                    payload_len |-> m.payload_len, start |-> st, out |-> o]
    IN  IF m.header_found /\ Len(m.rx) >= 9 + m.payload_len
        THEN IF ~TailPresent(m.rx) THEN keep("BadHeader")
             ELSE IF ~ChecksumValid(m.rx, m.payload_len) THEN keep("Checksum")
             ELSE IF ~IsOurs(m.rx, c, k) THEN DropFrame(m, st, t)
             ELSE IF SensorFailure(m.rx) THEN keep("SensorError")
             ELSE keep("Ok")
        ELSE keep("continue")

\* the "check for complete frame" block
CheckFrame(m, c, k, st, t) ==
    LET keep(o) == [rx |-> m.rx, header_found |-> m.header_found,
                    payload_len |-> m.payload_len, start |-> st, out |-> o]
    IN  IF m.header_found /\ Len(m.rx) >= 9 + m.payload_len
        THEN IF ~TailPresent(m.rx) THEN keep("BadHeader")
             ELSE IF ~IsOurs(m.rx, c, k) THEN DropFrame(m, st, t)
             ELSE IF ~ChecksumValid(m.rx, m.payload_len) THEN keep("Checksum")
             ELSE IF SensorFailure(m.rx) THEN keep("SensorError")
             ELSE keep("Ok")
        ELSE keep("continue")

(***************************************************************************)
(* Inputs: what the caller asks for and what the line delivers.            *)
(***************************************************************************)
PayloadBytes == {1, 83, 89, 84, 67}
NoiseBytes   == {0, 83, 89}

SeqsUpTo(S, n) == UNION {[1 .. k -> S] : k \in 0 .. n}

Payloads      == SeqsUpTo(PayloadBytes, MaxPayload)
LongPayload   == [i \in 1 .. LongLen |-> 1]
SmallPayloads == {<<>>, <<1>>, <<83, 89>>}
Noises        == SeqsUpTo(NoiseBytes, MaxNoise)
ExpPairs      == {<<2, 168>>, <<1, 131>>}
WrongPairs    == {<<2, 8>>, <<1, 168>>, <<128, 129>>}
AltBytes(b)   == {0, (b + 1) % 256} \ {b}

Alter(s, i, b) == [s EXCEPT ![i] = b]

Sc(kind, c, k, d, pre, frame, str, cyc, m) ==
    [kind |-> kind, con |-> c, cmd |-> k, data |-> d, pre |-> pre,
     frame |-> frame, stream |-> str, cycle |-> cyc, mode |-> m]

\* the line delivers exactly the frame the encoder makes for the request
ExactScen ==
    {Sc("exact", pr[1], pr[2], p, <<>>, Encode(pr[1], pr[2], p),
        Encode(pr[1], pr[2], p), <<>>, 0) :
        pr \in ExpPairs, p \in Payloads \cup {LongPayload}}

\* noise, then a valid matching frame
NoiseScen ==
    {Sc("noise", 2, 168, <<15>>, n, Encode(2, 168, p),
        n \o Encode(2, 168, p), <<>>, 0) :
        n \in Noises, p \in SmallPayloads}

\* a well-formed frame for another pair, then a valid matching frame
FilterScen ==
    {Sc("filter", 2, 168, <<15>>, Encode(w[1], w[2], q), Encode(2, 168, p),
        Encode(w[1], w[2], q) \o Encode(2, 168, p), <<>>, 0) :
        w \in WrongPairs, q \in SmallPayloads, p \in SmallPayloads}

\* a valid matching frame with one tail byte altered
TailScen ==
    UNION {{Sc("tail", 2, 168, <<15>>, <<>>, Encode(2, 168, p),
               Alter(Encode(2, 168, p), i, b), <<>>, 0) :
               b \in AltBytes(Encode(2, 168, p)[i]) \cup {83}} :
           <<p, i>> \in {<<q, 8 + Len(q) + j>> : q \in SmallPayloads, j \in 0 .. 1}}

\* a valid matching frame with one payload byte altered, checksum left alone
CksumScen ==
    UNION {{Sc("cksum", 2, 168, <<15>>, <<>>, Encode(2, 168, pi[1]),
               Alter(Encode(2, 168, pi[1]), 6 + pi[2], b), <<>>, 0) :
               b \in AltBytes(pi[1][pi[2]])} :
           pi \in UNION {{<<q, j>> : j \in 1 .. Len(q)} : q \in Payloads}}

\* a frame for another pair with one tail byte altered, then a valid
\* matching frame
ForeignTailScen ==
    UNION {{Sc("ftail", 2, 168, <<15>>, Alter(Encode(w[1], w[2], q), 8 + Len(q) + j, b),
               Encode(2, 168, <<1>>),
               Alter(Encode(w[1], w[2], q), 8 + Len(q) + j, b) \o Encode(2, 168, <<1>>),
               <<>>, 0) :
               b \in AltBytes(TAIL[j + 1])} :
           <<w, q, j>> \in WrongPairs \X SmallPayloads \X (0 .. 1)}

\* a frame for another pair with its checksum byte altered, then a valid
\* matching frame
ForeignCksumScen ==
    UNION {{Sc("fcksum", 2, 168, <<15>>, Alter(Encode(w[1], w[2], q), 7 + Len(q), b),
               Encode(2, 168, <<1>>),
               Alter(Encode(w[1], w[2], q), 7 + Len(q), b) \o Encode(2, 168, <<1>>),
               <<>>, 0) :
               b \in AltBytes(Encode(w[1], w[2], q)[7 + Len(q)])} :
           <<w, q>> \in WrongPairs \X SmallPayloads}

\* a valid frame whose group byte is the failure marker
SentinelScen ==
    {Sc("sentinel", c, 168, <<15>>, <<>>, Encode(SENSOR_ERROR, 168, p),
        Encode(SENSOR_ERROR, 168, p), <<>>, 0) :
        c \in {SENSOR_ERROR, 2}, p \in SmallPayloads}

\* nothing, or the same bytes for ever: silence, noise, foreign frames
EndlessScen ==
    {Sc("endless", 2, 168, <<15>>, <<>>, <<>>, <<>>, cyc, 0) :
        cyc \in {<<>>, <<0>>, <<83>>, Encode(1, 168, <<>>)}}

XferScenarios ==
    ExactScen \cup NoiseScen \cup FilterScen \cup TailScen \cup CksumScen
        \cup SentinelScen \cup EndlessScen \cup ForeignTailScen
        \cup ForeignCksumScen

\* replies waiting for config_work_mode's transactions
ModeReplies == {Encode(2, 168, <<m>>) : m \in 1 .. 3} \cup {Encode(2, 168, <<>>)}
ModeScen ==
    {Sc("mode", 2, 168, <<15>>, <<>>, r1, r1 \o r2, <<>>, m) :
        m \in 1 .. 2, r1 \in ModeReplies, r2 \in {<<>>, Encode(2, 168, <<1>>)}}

NoScen == Sc("none", 0, 0, <<>>, <<>>, <<>>, <<>>, <<>>, 0)

Result(tag, val) == [tag |-> tag, val |-> val]

\* SleepDataLogger::new: flush_every: 12
flush_every == 12

\* the keys of data_map, one dataset each, in the order flush visits them
Fields ==
    <<"timestamp", "temperature", "pressure", "humidity", "co2eq_ppm",
      "tvoc_ppb", "air_quality_index", "thermistor_temp", "image_path">>
NumFields == Len(Fields)
FieldSet == {Fields[i] : i \in 1 .. NumFields}

LoggerOp(name, pushed, flushed, res) ==
    [op |-> name, pushed |-> pushed, flushed |-> flushed, res |-> res]
NoLoggerOp == LoggerOp("none", 0, FALSE, "Ok")

(***************************************************************************)
(* State after C1001::open and SleepDataLogger::new: nothing written, nothing  *)
(* read, nothing buffered, every dataset empty.                             *)
(***************************************************************************)
Init ==
    /\ op = "none" /\ opc = "none" /\ mode = 0 /\ value = 0
    /\ poll = <<>>
    /\ con = 0 /\ cmd = 0 /\ data = <<>>
    /\ tx = <<>> /\ sleeps = <<>>
    /\ stream = <<>> /\ cycle = <<>>
    /\ rx = <<>> /\ header_found = FALSE /\ payload_len = 0
    /\ start = 0 /\ now = 0
    /\ pc = "idle" /\ xres = "none" /\ resp = <<>>
    /\ ret = Result("none", 0)
    /\ nxfer = 0 /\ ndecoded = 0
    /\ scen = NoScen
    /\ rd = "none"
    /\ buffer = <<>>
    /\ datasets = [f \in FieldSet |-> <<>>]
    /\ dropped = FALSE
    /\ lres = NoLoggerOp
    /\ nappend = 0 /\ nfail = 0
    /\ cancel = FALSE
    /\ main_pc = "select" /\ sensor_pc = "select" /\ audio_pc = "select"
    /\ data_logger = "free" /\ sensor_reader = "free"
    /\ nticks = 0 /\ recs = <<>> /\ rec = 0 /\ audio = <<>>
    /\ config = 0 /\ adc_pc = "idle" /\ adc_buf = <<>> /\ adc_ret = Result("none", 0)

xferLocals == <<rx, header_found, payload_len, start, rd>>
callArgs   == <<op, opc, mode, value, poll, con, cmd, data>>
lineVars   == <<stream, cycle>>
counters   == <<nxfer, ndecoded>>

\* a caller inside the crate calls xfer(con, cmd, data)
CallXferFrom(S) ==
    /\ pc = "idle"
    /\ \E sc \in S :
         /\ scen' = sc
         /\ op' = "xfer" /\ opc' = "xfer" /\ mode' = 0 /\ value' = 0
         /\ UNCHANGED poll
         /\ con' = sc.con /\ cmd' = sc.cmd /\ data' = sc.data
         /\ stream' = sc.stream /\ cycle' = sc.cycle
    /\ pc' = "write"
    /\ UNCHANGED <<tx, sleeps, xferLocals, now, xres, resp, ret, counters>>
    /\ UNCHANGED <<logVars, taskVars, adcVars>>

CallXfer == CallXferFrom(XferScenarios)

\* as XferWrite, but input pending on the port is discarded with the write
XferWriteClearInput ==
    /\ pc = "write"
    /\ \/ /\ tx' = Append(tx, [raw |-> FALSE, bytes |-> Encode(con, cmd, data)])
          /\ nxfer' = nxfer + 1
          /\ start' = now
          /\ rx' = <<>> /\ header_found' = FALSE /\ payload_len' = 0 /\ rd' = "none"
          /\ stream' = <<>>
          /\ pc' = "loop"
          /\ UNCHANGED <<xres, cycle>>
       \/ /\ xres' = "Io" /\ pc' = "ret"
          /\ UNCHANGED <<tx, nxfer, xferLocals, lineVars>>
    /\ UNCHANGED <<callArgs, sleeps, now, resp, ret, ndecoded, scen>>
    /\ UNCHANGED <<logVars, taskVars, adcVars>>

\* as XferWrite, but a failed write or flush is not looked at
XferWriteIgnoreError ==
    /\ pc = "write"
    /\ \/ /\ tx' = Append(tx, [raw |-> FALSE, bytes |-> Encode(con, cmd, data)])
          /\ nxfer' = nxfer + 1
       \/ UNCHANGED <<tx, nxfer>>
    /\ start' = now
    /\ rx' = <<>> /\ header_found' = FALSE /\ payload_len' = 0 /\ rd' = "none"
    /\ pc' = "loop"
    /\ UNCHANGED <<callArgs, sleeps, lineVars, now, xres, resp, ret, ndecoded, scen>>
    /\ UNCHANGED <<logVars, taskVars, adcVars>>

\* encode; port.write_all(&frame)?; port.flush()?; start = Instant::now(); locals
XferWrite ==
    /\ pc = "write"
    /\ \/ /\ tx' = Append(tx, [raw |-> FALSE, bytes |-> Encode(con, cmd, data)])
          /\ nxfer' = nxfer + 1
          /\ start' = now
          /\ rx' = <<>> /\ header_found' = FALSE /\ payload_len' = 0 /\ rd' = "none"
          /\ pc' = "loop"
          /\ UNCHANGED xres
       \/ /\ xres' = "Io" /\ pc' = "ret"
          /\ UNCHANGED <<tx, nxfer, xferLocals>>
    /\ UNCHANGED <<callArgs, sleeps, lineVars, now, resp, ret, ndecoded, scen>>
    /\ UNCHANGED <<logVars, taskVars, adcVars>>

\* as LoopCheck, but a timed-out transaction is tried once more
LoopCheckRetry ==
    /\ pc = "loop"
    /\ IF TimedOut(now - start)
       THEN IF nxfer < 2
            THEN pc' = "write" /\ UNCHANGED xres
            ELSE xres' = "Timeout" /\ pc' = "ret"
       ELSE pc' = "read" /\ UNCHANGED xres
    /\ rd' = "none"
    /\ UNCHANGED <<callArgs, tx, sleeps, lineVars, rx, header_found, payload_len,
                   start, now, resp, ret, counters, scen>>
    /\ UNCHANGED <<logVars, taskVars, adcVars>>

\* top of the loop: if start.elapsed() > TIMEOUT_TOTAL { return Err(Timeout) }
LoopCheck ==
    /\ pc = "loop"
    /\ IF TimedOut(now - start)
       THEN xres' = "Timeout" /\ pc' = "ret"
       ELSE pc' = "read" /\ UNCHANGED xres
    /\ rd' = "none"
    /\ UNCHANGED <<callArgs, tx, sleeps, lineVars, rx, header_found, payload_len,
                   start, now, resp, ret, counters, scen>>
    /\ UNCHANGED <<logVars, taskVars, adcVars>>

Incoming == IF stream = <<>> THEN cycle ELSE stream

\* port.read(&mut buf)? returned 1: push the byte, match on rx.len(), check frame
ReadByte ==
    /\ pc = "read"
    /\ Incoming # <<>>
    /\ LET byte == Head(Incoming)
           m    == MatchLen(Append(rx, byte), byte, header_found, payload_len)
           s    == CheckFrame(m, con, cmd, start, now)
       IN  /\ stream' = Tail(Incoming)
           /\ rx' = s.rx
           /\ header_found' = s.header_found
           /\ payload_len' = s.payload_len
           /\ start' = s.start
           /\ rd' = "byte"
           /\ IF s.out = "continue"
              THEN pc' = "loop" /\ UNCHANGED <<xres, resp, ndecoded>>
              ELSE /\ pc' = "ret" /\ xres' = s.out
                   /\ resp' = IF s.out = "Ok" THEN s.rx ELSE resp
                   /\ ndecoded' = IF s.out = "Ok" THEN ndecoded + 1 ELSE ndecoded
    /\ UNCHANGED <<callArgs, tx, sleeps, cycle, now, ret, nxfer, scen>>
    /\ UNCHANGED <<logVars, taskVars, adcVars>>

\* port.read(&mut buf)? returned 0: continue
ReadZero ==
    /\ pc = "read"
    /\ rd' = "zero"
    /\ pc' = "loop"
    /\ UNCHANGED <<callArgs, tx, sleeps, lineVars, rx, header_found, payload_len,
                   start, now, xres, resp, ret, counters, scen>>
    /\ UNCHANGED <<logVars, taskVars, adcVars>>

\* as ReadErr, but a failed read is polled again like an empty one
ReadErrRetry ==
    /\ pc = "read"
    /\ rd' = "err"
    /\ pc' = "loop"
    /\ UNCHANGED <<callArgs, tx, sleeps, lineVars, rx, header_found, payload_len,
                   start, now, xres, resp, ret, counters, scen>>
    /\ UNCHANGED <<logVars, taskVars, adcVars>>

\* port.read(&mut buf)? returned Err: the ? returns Error::Io
ReadErr ==
    /\ pc = "read"
    /\ rd' = "err"
    /\ xres' = "Io" /\ pc' = "ret"
    /\ UNCHANGED <<callArgs, tx, sleeps, lineVars, rx, header_found, payload_len,
                   start, now, resp, ret, counters, scen>>
    /\ UNCHANGED <<logVars, taskVars, adcVars>>

\* wall-clock time passes while xfer polls or is blocked in port.read
Tick ==
    /\ pc \in {"loop", "read"}
    /\ now - start < MaxElapsed
    /\ now' = now + 1
    /\ UNCHANGED <<callArgs, tx, sleeps, lineVars, xferLocals, pc, xres, resp,
                   ret, counters, scen>>
    /\ UNCHANGED <<logVars, taskVars, adcVars>>

\* xfer returns to the caller that called it directly
XferReturn ==
    /\ pc = "ret" /\ op = "xfer"
    /\ ret' = Result(xres, 0)
    /\ pc' = "done"
    /\ UNCHANGED <<callArgs, tx, sleeps, lineVars, xferLocals, now, xres, resp,
                   counters, scen>>
    /\ UNCHANGED <<logVars, taskVars, adcVars>>

(***************************************************************************)
(* config_work_mode (with get_work_mode inlined at its call).              *)
(***************************************************************************)
\* as GetWorkMode, but the mode code is looked for in the payload only
GetWorkModePayloadOnly(r) ==
    IF Len(r) >= 10
    THEN CASE r[7] = 1 -> Result("Ok", 1)
           [] r[7] = 2 -> Result("Ok", 2)
           [] OTHER    -> Result("UnexpectedMode", r[7])
    ELSE Result("Length", Len(r))

\* as GetWorkMode, with the two modes taken for each other
GetWorkModeSwapped(r) ==
    IF Len(r) >= 7
    THEN CASE r[7] = 1 -> Result("Ok", 2)
           [] r[7] = 2 -> Result("Ok", 1)
           [] OTHER    -> Result("UnexpectedMode", r[7])
    ELSE Result("Length", Len(r))

\* get_work_mode's match on resp.get(6)
GetWorkMode(r) ==
    IF Len(r) >= 7
    THEN CASE r[7] = 1 -> Result("Ok", 1)
           [] r[7] = 2 -> Result("Ok", 2)
           [] OTHER    -> Result("UnexpectedMode", r[7])
    ELSE Result("Length", Len(r))

QueryPayloadUnset == <<0>>
\* let mut payload = [0u8; 1]; payload[0] = 0x0F;
QueryPayload == <<15>>

SameModeNever(cur, m) == FALSE
\* if cur == mode { return Ok(()); }
SameMode(cur, m) == cur = m

CallConfigWorkMode ==
    /\ pc = "idle"
    /\ \E sc \in ModeScen :
         /\ scen' = sc
         /\ mode' = sc.mode
         /\ stream' = sc.stream /\ cycle' = sc.cycle
    /\ op' = "config_work_mode" /\ opc' = "get" /\ value' = 0
    /\ UNCHANGED poll
    /\ con' = 2 /\ cmd' = 168 /\ data' = <<15>>
    /\ pc' = "write"
    /\ UNCHANGED <<tx, sleeps, xferLocals, now, xres, resp, ret, counters>>
    /\ UNCHANGED <<logVars, taskVars, adcVars>>

\* let cur = self.get_work_mode()?; if cur == mode { return Ok(()) };
\* otherwise go on to self.xfer(0x02, 0xA8, &payload)
ConfigGotMode ==
    /\ pc = "ret" /\ op = "config_work_mode" /\ opc = "get"
    /\ LET cur == GetWorkMode(resp)
       IN  IF xres # "Ok"
           THEN ret' = Result(xres, 0) /\ pc' = "done" /\ UNCHANGED <<opc, data>>
           ELSE IF cur.tag # "Ok"
           THEN ret' = cur /\ pc' = "done" /\ UNCHANGED <<opc, data>>
           ELSE IF SameMode(cur.val, mode)
           THEN ret' = Result("Ok", 0) /\ pc' = "done" /\ UNCHANGED <<opc, data>>
           ELSE opc' = "query" /\ data' = QueryPayload /\ pc' = "write" /\ UNCHANGED ret
    /\ UNCHANGED <<op, mode, value, poll, con, cmd, tx, sleeps, lineVars, xferLocals, now,
                   xres, resp, counters, scen>>
    /\ UNCHANGED <<logVars, taskVars, adcVars>>

\* let _ = self.xfer(..)?; port.write_all(&cfg)?; sleep(10 s); Ok(())
ConfigQueried ==
    /\ pc = "ret" /\ op = "config_work_mode" /\ opc = "query"
    /\ IF xres # "Ok"
       THEN ret' = Result(xres, 0) /\ UNCHANGED <<tx, sleeps>>
       ELSE \/ /\ tx' = Append(tx, [raw |-> TRUE, bytes |-> ModeSetFrame(mode)])
               /\ sleeps' = Append(sleeps, MODE_SETTLE)
               /\ ret' = Result("Ok", 0)
            \/ /\ ret' = Result("Io", 0) /\ UNCHANGED <<tx, sleeps>>
    /\ pc' = "done"
    /\ UNCHANGED <<callArgs, lineVars, xferLocals, now, xres, resp, counters, scen>>
    /\ UNCHANGED <<logVars, taskVars, adcVars>>

(***************************************************************************)
(* The typed operations: each is one xfer followed by a decoding of the    *)
(* returned frame.  fields lists, per returned number, the indices (as in  *)
(* the source, from 0) that the operation reads from the frame.            *)
(***************************************************************************)
Op(name, c, k, d, kind, fields) ==
    [name |-> name, con |-> c, cmd |-> k, data |-> d, kind |-> kind,
     fields |-> fields]

U8  == <<<<6>>>>
U16 == <<<<6, 7>>>>
U32 == <<<<6, 7, 8, 9>>>>

ReadOps ==
    { Op("get_work_mode", 2, 168, <<15>>, "mode", U8),
      Op("led_state", 1, 132, <<15>>, "bool", U8),
      Op("led_state", 1, 131, <<15>>, "bool", U8),
      Op("sleep_human_data", 128, 129, <<15>>, "be", U8),
      Op("sleep_human_data", 128, 130, <<15>>, "be", U8),
      Op("heart_rate", 133, 130, <<15>>, "be", U8),
      Op("breathe_state", 129, 129, <<15>>, "be", U8),
      Op("breathe_value", 129, 130, <<15>>, "be", U8),
      Op("sleep_metric", 132, 140, <<15>>, "be", U8),
      Op("sleep_metric", 132, 129, <<15>>, "be", U8),
      Op("sleep_metric", 132, 130, <<15>>, "be", U8),
      Op("sleep_metric", 132, 131, <<15>>, "be", U16),
      Op("sleep_metric", 132, 132, <<15>>, "be", U16),
      Op("sleep_metric", 132, 133, <<15>>, "be", U16),
      Op("sleep_metric", 132, 134, <<15>>, "be", U8),
      Op("sleep_metric", 132, 142, <<15>>, "be", U8),
      Op("sleep_metric", 132, 144, <<15>>, "be", U8),
      Op("dm_get_install_angle", 6, 129, <<15>>, "be",
         <<<<6, 7>>, <<8, 9>>, <<10, 11>>>>),
      Op("dm_get_install_height", 6, 130, <<15>>, "be", U16),
      Op("dm_auto_measure_height", 131, 144, <<15>>, "be", U16),
      Op("dm_human_data", 128, 129, <<15>>, "be", U8),
      Op("track", 131, 142, <<15>>, "be", <<<<6, 7>>, <<8, 9>>>>),
      Op("track_frequency", 131, 147, <<15>>, "be", U32),
      Op("unmanned_time", 128, 146, <<15>>, "be", U32),
      Op("get_fall_data", 131, 145, <<15>>, "fall", U16),
      Op("get_fall_time", 131, 140, <<15>>, "be", U32),
      Op("static_residency_time", 131, 138, <<15>>, "be", U32),
      Op("accumulated_height_duration", 131, 143, <<15>>, "be", U32) }

WriteOps ==
    { Op("set_led", 1, 4, <<1>>, "sentinel", <<>>),
      Op("set_led", 1, 3, <<0>>, "sentinel", <<>>),
      Op("dm_install_height", 6, 2, <<1, 44>>, "unit", <<>>) }

Ops == ReadOps \cup WriteOps

\* dm_fall_config's table of (cmd, data_len)
FallDataConfigs ==
    { [cfg |-> "FallBreakHeight",   cmd |-> 17, data_len |-> 2],
      [cfg |-> "HeightRatioSwitch", cmd |-> 21, data_len |-> 1],
      [cfg |-> "ReportFrequency",   cmd |-> 19, data_len |-> 4],
      [cfg |-> "ReportSwitch",      cmd |-> 20, data_len |-> 1],
      [cfg |-> "AltTime",           cmd |-> 15, data_len |-> 4],
      [cfg |-> "FallSensitivity",   cmd |-> 13, data_len |-> 1],
      [cfg |-> "ResidenceSwitch",   cmd |-> 11, data_len |-> 1],
      [cfg |-> "ResidenceTime",     cmd |-> 10, data_len |-> 4] }

\* as ToBytes, but the low byte is pushed first
ToBytesLsbFirst(v, n) == [k \in 1 .. n |-> (v \div 256 ^ (k - 1)) % 256]

\* for shift in (0..data_len).rev() { data.push((value >> (8 * shift)) as u8) }
ToBytes(v, n) == [k \in 1 .. n |-> (v \div 256 ^ (n - k)) % 256]

\* values a caller passes as value: u32, some wider than 1 or 2 bytes
ConfigValues == {0, 1, 300, 65537, 16909060}

FallConfigOp(c, v) ==
    Op("dm_fall_config", 131, c.cmd, ToBytes(v, c.data_len), "unit", <<>>)

FallConfigOps == {FallConfigOp(c, v) : c \in FallDataConfigs, v \in ConfigValues}

OpOf(n, c, k) ==
    CHOOSE o \in Ops \cup FallConfigOps : o.name = n /\ o.con = c /\ o.cmd = k

\* as BigEndian, but only the last byte is kept
BigEndianLowByte(r, ix) == r[ix[Len(ix)] + 1]

\* ((resp[a] as uN) << 8 | resp[b] ...) over the indices ix, high byte first
RECURSIVE BigEndian(_, _)
BigEndian(r, ix) ==
    IF ix = <<>> THEN 0
    ELSE BigEndian(r, SubSeq(ix, 1, Len(ix) - 1)) * 256 + r[ix[Len(ix)] + 1]

\* resp[i] is inside the returned frame; outside it the indexing panics
InBounds(r, ix) == \A j \in 1 .. Len(ix) : ix[j] < Len(r)

Panic(r) == Result("panic", Len(r))

\* what the operation makes of the frame xfer returned
Decode(o, r) ==
    CASE o.kind = "unit" -> Result("Ok", 0)
      [] o.kind = "sentinel" ->
            IF SensorFailure(r) THEN Result("SensorError", 0) ELSE Result("Ok", 0)
      [] o.kind = "mode" -> GetWorkMode(r)
      [] o.kind = "bool" ->
            IF InBounds(r, <<6>>) THEN Result("Ok", r[7] = 1) ELSE Panic(r)
      [] o.kind = "fall" ->
            IF InBounds(r, <<6>>)
            THEN Result("Ok", r[7] * 256 + (IF Len(r) > 7 THEN r[8] ELSE 0))
            ELSE Panic(r)
      [] o.kind = "be" ->
            IF \A f \in 1 .. Len(o.fields) : InBounds(r, o.fields[f])
            THEN Result("Ok", [f \in 1 .. Len(o.fields) |-> BigEndian(r, o.fields[f])])
            ELSE Panic(r)

\* replies of every payload length the operations index into, and beyond
Count(n) == [i \in 1 .. n |-> i]
ReplyPayloads == {Count(n) : n \in 0 .. MaxReply} \cup {<<2>>, <<3>>}
\* for the one-byte mode code also the ends of its range
ModeCodePayloads == {<<0>>, <<255>>}
ReplyPayloadsOf(o) ==
    ReplyPayloads \cup (IF o.kind = "mode" THEN ModeCodePayloads ELSE {})

\* the line delivers a valid reply to the operation's own request
OpScen(o) ==
    {Sc("reply", o.con, o.cmd, o.data, <<>>, Encode(o.con, o.cmd, p),
        Encode(o.con, o.cmd, p), <<>>, 0) : p \in ReplyPayloadsOf(o)}

\* a caller calls one of the typed operations
CallOp ==
    /\ pc = "idle"
    /\ \E o \in Ops : \E sc \in OpScen(o) :
         /\ scen' = sc
         /\ op' = o.name /\ opc' = "typed" /\ mode' = 0 /\ value' = 0
         /\ UNCHANGED poll
         /\ con' = o.con /\ cmd' = o.cmd /\ data' = o.data
         /\ stream' = sc.stream /\ cycle' = sc.cycle
    /\ pc' = "write"
    /\ UNCHANGED <<tx, sleeps, xferLocals, now, xres, resp, ret, counters>>
    /\ UNCHANGED <<logVars, taskVars, adcVars>>

\* let resp = self.xfer(..)?; then the operation's own decoding of resp
OpReturn ==
    /\ pc = "ret" /\ opc = "typed"
    /\ ret' = IF xres # "Ok" THEN Result(xres, 0)
              ELSE Decode(OpOf(op, con, cmd), resp)
    /\ pc' = "done"
    /\ UNCHANGED <<callArgs, tx, sleeps, lineVars, xferLocals, now, xres, resp,
                   counters, scen>>
    /\ UNCHANGED <<logVars, taskVars, adcVars>>

\* the line acknowledges a write with a reply that echoes the payload, or
\* with an empty one
AckScen(o) ==
    {Sc("reply", o.con, o.cmd, o.data, <<>>, Encode(o.con, o.cmd, p),
        Encode(o.con, o.cmd, p), <<>>, 0) : p \in {<<>>, o.data}}

\* a caller calls dm_fall_config(cfg, value)
CallFallConfig ==
    /\ pc = "idle"
    /\ \E c \in FallDataConfigs : \E v \in ConfigValues :
         \E sc \in AckScen(FallConfigOp(c, v)) :
           /\ scen' = sc
           /\ op' = "dm_fall_config" /\ opc' = "typed" /\ mode' = 0
           /\ value' = v /\ UNCHANGED poll
           /\ con' = 131 /\ cmd' = c.cmd /\ data' = ToBytes(v, c.data_len)
           /\ stream' = sc.stream /\ cycle' = sc.cycle
    /\ pc' = "write"
    /\ UNCHANGED <<tx, sleeps, xferLocals, now, xres, resp, ret, counters>>
    /\ UNCHANGED <<logVars, taskVars, adcVars>>

\* begin: sleep(6 s), then xfer(0x01, 0x83, &[0x0F]) and the resp[0] test
BeginOp == Op("begin", 1, 131, <<15>>, "sentinel", <<>>)

CallBegin ==
    /\ pc = "idle"
    /\ \E sc \in OpScen(BeginOp) :
         /\ scen' = sc
         /\ stream' = sc.stream /\ cycle' = sc.cycle
    /\ op' = "begin" /\ opc' = "begin" /\ mode' = 0 /\ value' = 0
    /\ UNCHANGED poll
    /\ con' = BeginOp.con /\ cmd' = BeginOp.cmd /\ data' = BeginOp.data
    /\ sleeps' = Append(sleeps, BOOT_DELAY)
    /\ pc' = "write"
    /\ UNCHANGED <<tx, xferLocals, now, xres, resp, ret, counters>>
    /\ UNCHANGED <<logVars, taskVars, adcVars>>

BeginReturn ==
    /\ pc = "ret" /\ opc = "begin"
    /\ ret' = IF xres # "Ok" THEN Result(xres, 0) ELSE Decode(BeginOp, resp)
    /\ pc' = "done"
    /\ UNCHANGED <<callArgs, tx, sleeps, lineVars, xferLocals, now, xres, resp,
                   counters, scen>>
    /\ UNCHANGED <<logVars, taskVars, adcVars>>

\* byte slices handed to checksum on its own: the slice of the unit test and
\* every slice of up to MaxBuf bytes over values that wrap and that do not
ChecksumBytes == {0, 1, 128, 255}
ChecksumInputs == {<<2, 168, 0, 1, 15>>} \cup SeqsUpTo(ChecksumBytes, MaxBuf)

\* C1001::checksum(buf), as the unit test calls it
CallChecksum ==
    /\ pc = "idle"
    /\ \E buf \in ChecksumInputs :
         /\ data' = buf
         /\ ret' = Result("Ok", checksum(buf))
    /\ op' = "checksum" /\ opc' = "checksum"
    /\ pc' = "done"
    /\ UNCHANGED <<mode, value, poll, con, cmd, tx, sleeps, lineVars, xferLocals, now, xres,
                   resp, counters, scen>>
    /\ UNCHANGED <<logVars, taskVars, adcVars>>

(***************************************************************************)
(* poll_sleep_data: four reads one after the other, each bound to a field  *)
(* of C1001SleepData through .map(..).map_err(..).ok().                    *)
(***************************************************************************)

\* Option<T>: None, Some(v)
None == [some |-> FALSE, val |-> 0]
Some(v) == [some |-> TRUE, val |-> v]

\* the reads in the order of the let bindings, with the closure given to map
PollReads ==
    << [field |-> "presence",       con |-> 128, cmd |-> 129],
       [field |-> "movement",       con |-> 128, cmd |-> 130],
       [field |-> "heart_rate_bpm", con |-> 133, cmd |-> 130],
       [field |-> "resp_rate_bpm",  con |-> 129, cmd |-> 130] >>

NumReads == Len(PollReads)

\* .map(|v| v != 0), .map(|v| v == 2), .map(|v| v.into())
PollMap(k, v) ==
    IF k = 1 THEN Some(v # 0)
    ELSE IF k = 2 THEN Some(v = 2)
    ELSE Some(v)

\* Result -> Option: Ok(resp[6]) mapped, Err(e) printed and dropped
PollField(k, res, r) == IF res = "Ok" THEN PollMap(k, r[7]) ELSE None

\* what the sensor answers to the four requests: for each, a valid reply,
\* a reply whose checksum byte is wrong, or nothing
PollValues == <<1, 2, 70, 15>>

PollReply(k, how) ==
    LET f == Encode(PollReads[k].con, PollReads[k].cmd, <<PollValues[k]>>)
    IN  CASE how = "ok"    -> f
          [] how = "cksum" -> Alter(f, 8, (f[8] + 1) % 256)
          [] how = "none"  -> <<>>

PollHows ==
    {h \in [1 .. NumReads -> {"ok", "cksum", "none"}] :
        Cardinality({k \in 1 .. NumReads : h[k] # "ok"}) <= MaxPollFail}

RECURSIVE PollStream(_, _)
PollStream(h, k) ==
    IF k > NumReads THEN <<>> ELSE PollReply(k, h[k]) \o PollStream(h, k + 1)

PollScen ==
    {Sc("poll", PollReads[1].con, PollReads[1].cmd, <<15>>, <<>>, <<>>,
        PollStream(h, 1), <<>>, 0) : h \in PollHows}

\* a caller calls poll_sleep_data: the first read starts
CallPoll ==
    /\ pc = "idle"
    /\ \E sc \in PollScen :
         /\ scen' = sc
         /\ stream' = sc.stream /\ cycle' = sc.cycle
    /\ op' = "poll_sleep_data" /\ opc' = "poll" /\ mode' = 0 /\ value' = 0
    /\ poll' = <<>>
    /\ con' = PollReads[1].con /\ cmd' = PollReads[1].cmd /\ data' = <<15>>
    /\ pc' = "write"
    /\ UNCHANGED <<tx, sleeps, xferLocals, now, xres, resp, ret, counters>>
    /\ UNCHANGED <<logVars, taskVars, adcVars>>

\* as PollStep, but the first failed read ends the poll: the fields not yet
\* read are None
PollStepAbort ==
    /\ pc = "ret" /\ opc = "poll"
    /\ LET k == Len(poll) + 1
           filled == [j \in 1 .. NumReads |-> IF j < k THEN poll[j] ELSE None]
       IN  IF xres # "Ok"
           THEN /\ poll' = filled
                /\ pc' = "done" /\ ret' = Result("Ok", filled)
                /\ UNCHANGED <<con, cmd>>
           ELSE /\ poll' = Append(poll, PollField(k, xres, resp))
                /\ IF k < NumReads
                   THEN /\ con' = PollReads[k + 1].con /\ cmd' = PollReads[k + 1].cmd
                        /\ pc' = "write" /\ UNCHANGED ret
                   ELSE /\ pc' = "done" /\ ret' = Result("Ok", poll')
                        /\ UNCHANGED <<con, cmd>>
    /\ UNCHANGED <<op, opc, mode, value, data, tx, sleeps, lineVars, xferLocals,
                   now, xres, resp, counters, scen>>
    /\ UNCHANGED <<logVars, taskVars, adcVars>>

\* one read has returned: its outcome is bound to its field and the next
\* read starts; after the last one the struct is returned
PollStep ==
    /\ pc = "ret" /\ opc = "poll"
    /\ LET k == Len(poll) + 1
       IN  /\ poll' = Append(poll, PollField(k, xres, resp))
           /\ IF k < NumReads
              THEN /\ con' = PollReads[k + 1].con /\ cmd' = PollReads[k + 1].cmd
                   /\ pc' = "write" /\ UNCHANGED ret
              ELSE /\ pc' = "done" /\ ret' = Result("Ok", poll')
                   /\ UNCHANGED <<con, cmd>>
    /\ UNCHANGED <<op, opc, mode, value, data, tx, sleeps, lineVars, xferLocals,
                   now, xres, resp, counters, scen>>
    /\ UNCHANGED <<logVars, taskVars, adcVars>>

\* the whole timeout passes while xfer waits in one blocking call
TickPast ==
    /\ pc \in {"loop", "read"} /\ now = start
    /\ now' = now + MaxElapsed
    /\ UNCHANGED <<callArgs, tx, sleeps, lineVars, xferLocals, pc, xres, resp,
                   ret, counters, scen>>
    /\ UNCHANGED <<logVars, taskVars, adcVars>>

NextPoll ==
    \/ CallPoll
    \/ XferWrite
    \/ LoopCheck
    \/ ReadByte
    \/ ReadZero
    \/ ReadErr
    \/ TickPast
    \/ PollStep

SpecPoll == Init /\ [][NextPoll]_vars

(***************************************************************************)
(* SleepDataLogger.  A sample is known by its number in append order; a    *)
(* row a dataset was resized for and that was never written is 0.          *)
(***************************************************************************)
Rows(n, v) == [i \in 1 .. n |-> v]

\* the datasets at which a failure is tried: the first and the last visited
FailAt == {1, NumFields}

\* how a flush of a non-empty batch can end: every dataset written (at =
\* NumFields + 1), file.group() failed (at = 0), or append_to_dataset failed
\* for the at-th dataset, before its resize or in write_slice after it
FlushOutcomes ==
    {[at |-> NumFields + 1, step |-> "none"], [at |-> 0, step |-> "group"]}
        \cup {[at |-> k, step |-> st] :
                k \in FailAt, st \in {"resize", "write_slice"}}

Failed(o) == o.at <= NumFields

\* the datasets after flush has run on batch with outcome o
FlushTo(ds, batch, o) ==
    [f \in FieldSet |->
        LET k == CHOOSE i \in 1 .. NumFields : Fields[i] = f
        IN  IF k < o.at THEN ds[f] \o batch
            ELSE IF k = o.at /\ o.step = "write_slice"
            THEN ds[f] \o Rows(Len(batch), 0)
            ELSE ds[f]]

\* flush: let buffer = mem::take(&mut self.buffer); if buffer.is_empty()
\* return Ok; append the batch to each dataset, '?' on the first failure.
\* Gives the outcomes allowed now.
FlushChoices(batch) ==
    IF batch = <<>> THEN {[at |-> NumFields + 1, step |-> "none"]}
    ELSE {o \in FlushOutcomes : Failed(o) => nfail < MaxFail}

ReachedAbove(n) == n > flush_every
\* if self.buffer.len() >= self.flush_every
Reached(n) == n >= flush_every

\* append(sample): push, then flush if the buffer has reached flush_every
LoggerAppend ==
    /\ ~dropped /\ nappend < MaxSamples
    /\ nappend' = nappend + 1
    /\ LET pushed == Append(buffer, nappend + 1)
       IN  IF Reached(Len(pushed))
           THEN \E o \in FlushChoices(pushed) :
                  /\ buffer' = <<>>
                  /\ datasets' = FlushTo(datasets, pushed, o)
                  /\ nfail' = IF Failed(o) THEN nfail + 1 ELSE nfail
                  /\ lres' = LoggerOp("append", Len(pushed), TRUE,
                                      IF Failed(o) THEN "Err" ELSE "Ok")
           ELSE /\ buffer' = pushed
                /\ lres' = LoggerOp("append", Len(pushed), FALSE, "Ok")
                /\ UNCHANGED <<datasets, nfail>>
    /\ UNCHANGED <<dropped, driverVars, taskVars, adcVars>>

\* as LoggerFlush, but the batch goes back into the buffer when a write fails
LoggerFlushKeepOnError ==
    /\ ~dropped
    /\ \E o \in FlushChoices(buffer) :
         /\ buffer' = IF Failed(o) THEN buffer ELSE <<>>
         /\ datasets' = FlushTo(datasets, buffer, o)
         /\ nfail' = IF Failed(o) THEN nfail + 1 ELSE nfail
         /\ lres' = LoggerOp("flush", Len(buffer), TRUE,
                             IF Failed(o) THEN "Err" ELSE "Ok")
    /\ UNCHANGED <<dropped, nappend, driverVars, taskVars, adcVars>>

\* flush(), called by the owner of the logger
LoggerFlush ==
    /\ ~dropped
    /\ \E o \in FlushChoices(buffer) :
         /\ buffer' = <<>>
         /\ datasets' = FlushTo(datasets, buffer, o)
         /\ nfail' = IF Failed(o) THEN nfail + 1 ELSE nfail
         /\ lres' = LoggerOp("flush", Len(buffer), TRUE,
                             IF Failed(o) THEN "Err" ELSE "Ok")
    /\ UNCHANGED <<dropped, nappend, driverVars, taskVars, adcVars>>

\* as LoggerDrop, without the final flush
LoggerDropNoFlush ==
    /\ ~dropped
    /\ dropped' = TRUE
    /\ lres' = LoggerOp("drop", Len(buffer), FALSE, "Ok")
    /\ UNCHANGED <<buffer, datasets, nfail, nappend, driverVars, taskVars, adcVars>>

\* Drop: if let Err(e) = self.flush() { warn!(..) }
LoggerDrop ==
    /\ ~dropped
    /\ dropped' = TRUE
    /\ \E o \in FlushChoices(buffer) :
         /\ buffer' = <<>>
         /\ datasets' = FlushTo(datasets, buffer, o)
         /\ nfail' = IF Failed(o) THEN nfail + 1 ELSE nfail
         /\ lres' = LoggerOp("drop", Len(buffer), TRUE,
                             IF Failed(o) THEN "Err" ELSE "Ok")
    /\ UNCHANGED <<nappend, driverVars, taskVars, adcVars>>

Read == ReadByte \/ ReadZero \/ ReadErr

Next ==
    \/ CallXfer
    \/ CallConfigWorkMode
    \/ XferWrite
    \/ LoopCheck
    \/ ReadByte
    \/ ReadZero
    \/ ReadErr
    \/ Tick
    \/ XferReturn
    \/ ConfigGotMode
    \/ ConfigQueried
    \/ CallOp
    \/ CallFallConfig
    \/ OpReturn
    \/ CallBegin
    \/ BeginReturn
    \/ CallChecksum

Spec == Init /\ [][Next]_vars

\* The data logger on its own: appends, explicit flushes and the final drop.
NextLogger ==
    \/ LoggerAppend
    \/ LoggerFlush
    \/ LoggerDrop

SpecLogger == Init /\ [][NextLogger]_vars

\* The same program on the inputs that keep xfer busy longest: endless
\* silence, noise and foreign frames, frames that are dropped or rejected.
LiveScenarios == EndlessScen \cup SentinelScen \cup FilterScen \cup TailScen

CallXferLive == CallXferFrom(LiveScenarios)

NextLive ==
    \/ CallXferLive
    \/ CallConfigWorkMode
    \/ XferWrite
    \/ LoopCheck
    \/ ReadByte
    \/ ReadZero
    \/ ReadErr
    \/ Tick
    \/ XferReturn
    \/ ConfigGotMode
    \/ ConfigQueried

\* every read returns, the loop keeps running and wall-clock time advances
SpecLive ==
    /\ Init /\ [][NextLive]_vars
    /\ WF_vars(XferWrite) /\ WF_vars(LoopCheck) /\ WF_vars(Read) /\ WF_vars(Tick)

(***************************************************************************)
(* sleep_tracker and its two tasks.  A task is at "select" when it waits   *)
(* in tokio::select!; a SleepDataLogger operation is the time the task     *)
(* holds the data_logger mutex.  Tasks do not panic here, so the two       *)
(* join-handle branches of sleep_tracker's select! cannot complete before  *)
(* a cancellation.                                                         *)
(***************************************************************************)

\* select!: ctrl_c() or the 10-hour timeout completes; cancel.cancel()
MainCancel ==
    /\ main_pc = "select"
    /\ cancel' = TRUE /\ main_pc' = "join_sensor"
    /\ UNCHANGED <<sensor_pc, audio_pc, data_logger, sensor_reader, nticks, recs,
                   rec, audio>>
    /\ UNCHANGED <<driverVars, logVars, adcVars>>

\* let _ = sensor_handle.await;
MainJoinSensor ==
    /\ main_pc = "join_sensor" /\ sensor_pc = "exited"
    /\ main_pc' = "join_audio"
    /\ UNCHANGED <<cancel, sensor_pc, audio_pc, data_logger, sensor_reader, nticks,
                   recs, rec, audio>>
    /\ UNCHANGED <<driverVars, logVars, adcVars>>

\* let _ = audio_handle.await; Ok(())
MainJoinAudio ==
    /\ main_pc = "join_audio" /\ audio_pc = "exited"
    /\ main_pc' = "returned"
    /\ UNCHANGED <<cancel, sensor_pc, audio_pc, data_logger, sensor_reader, nticks,
                   recs, rec, audio>>
    /\ UNCHANGED <<driverVars, logVars, adcVars>>

\* sensor_loop, select!: _ = cancel.cancelled() => break
SensorShutdown ==
    /\ sensor_pc = "select" /\ cancel
    /\ sensor_pc' = "exited"
    /\ UNCHANGED <<cancel, main_pc, audio_pc, data_logger, sensor_reader, nticks,
                   recs, rec, audio>>
    /\ UNCHANGED <<driverVars, logVars, adcVars>>

\* sensor_loop, select!: _ = interval.tick() => sensor_reader.lock()
SensorTick ==
    /\ sensor_pc = "select" /\ nticks < MaxTicks
    /\ nticks' = nticks + 1
    /\ sensor_pc' = "lock_reader"
    /\ UNCHANGED <<cancel, main_pc, audio_pc, data_logger, sensor_reader, recs,
                   rec, audio>>
    /\ UNCHANGED <<driverVars, logVars, adcVars>>

\* sensor_reader.lock().await completes
SensorLockReader ==
    /\ sensor_pc = "lock_reader" /\ sensor_reader = "free"
    /\ sensor_reader' = "sensor"
    /\ sensor_pc' = "measure"
    /\ UNCHANGED <<cancel, main_pc, audio_pc, data_logger, nticks, recs, rec, audio>>
    /\ UNCHANGED <<driverVars, logVars, adcVars>>

\* as SensorMeasure, but the guard of sensor_reader is kept until the sample
\* has been appended
SensorMeasureKeepGuard ==
    /\ sensor_pc = "measure" /\ sensor_reader = "sensor"
    /\ \/ sensor_pc' = "lock_logger" /\ UNCHANGED sensor_reader
       \/ sensor_pc' = "select" /\ sensor_reader' = "free"
    /\ UNCHANGED <<cancel, main_pc, audio_pc, data_logger, nticks, recs, rec, audio>>
    /\ UNCHANGED <<driverVars, logVars, adcVars>>

\* let sample = match <guard>.measure() { Ok(s) => s, Err(e) => continue };
\* the guard is a temporary of the let statement and is dropped with it
SensorMeasure ==
    /\ sensor_pc = "measure" /\ sensor_reader = "sensor"
    /\ sensor_reader' = "free"
    /\ \/ sensor_pc' = "lock_logger"
       \/ sensor_pc' = "select"
    /\ UNCHANGED <<cancel, main_pc, audio_pc, data_logger, nticks, recs, rec, audio>>
    /\ UNCHANGED <<driverVars, logVars, adcVars>>

\* data_logger.lock().await completes
SensorLockLogger ==
    /\ sensor_pc = "lock_logger" /\ data_logger = "free"
    /\ data_logger' = "sensor"
    /\ sensor_pc' = "append"
    /\ UNCHANGED <<cancel, main_pc, audio_pc, sensor_reader, nticks, recs, rec, audio>>
    /\ UNCHANGED <<driverVars, logVars, adcVars>>

\* if let Err(e) = <guard>.append(sample) { warn!(..) }, then the guard goes
SensorAppend ==
    /\ sensor_pc = "append" /\ data_logger = "sensor"
    /\ data_logger' = "free"
    /\ sensor_pc' = "select"
    /\ UNCHANGED <<cancel, main_pc, audio_pc, sensor_reader, nticks, recs, rec, audio>>
    /\ UNCHANGED <<driverVars, logVars, adcVars>>

\* audio_loop, select!: _ = cancel.cancelled() => break
AudioShutdown ==
    /\ audio_pc = "select" /\ cancel
    /\ audio_pc' = "exited"
    /\ UNCHANGED <<cancel, main_pc, sensor_pc, data_logger, sensor_reader, nticks,
                   recs, rec, audio>>
    /\ UNCHANGED <<driverVars, logVars, adcVars>>

\* audio_loop, select!: _ = interval.tick() => async_audio_recording()
AudioTick ==
    /\ audio_pc = "select" /\ Len(recs) < MaxRecordings
    /\ recs' = Append(recs, [early |-> ~cancel, fate |-> "running"])
    /\ rec' = Len(recs) + 1
    /\ audio_pc' = "recording"
    /\ UNCHANGED <<cancel, main_pc, sensor_pc, data_logger, sensor_reader, nticks,
                   audio>>
    /\ UNCHANGED <<driverVars, logVars, adcVars>>

\* as AudioRecorded, but a recording still running when cancellation is
\* signalled is abandoned
AudioRecordedAbortOnCancel ==
    /\ audio_pc = "recording"
    /\ IF cancel
       THEN audio_pc' = "select" /\ rec' = 0 /\ UNCHANGED recs
       ELSE \/ /\ recs' = [recs EXCEPT ![rec].fate = "recorded"]
               /\ audio_pc' = "lock_logger" /\ UNCHANGED rec
            \/ /\ recs' = [recs EXCEPT ![rec].fate = "failed"]
               /\ audio_pc' = "select" /\ rec' = 0
    /\ UNCHANGED <<cancel, main_pc, sensor_pc, data_logger, sensor_reader, nticks,
                   audio>>
    /\ UNCHANGED <<driverVars, logVars, adcVars>>

\* match recorder.async_audio_recording().await { Ok(rec) => .., Err(e) => warn }
AudioRecorded ==
    /\ audio_pc = "recording"
    /\ \/ /\ recs' = [recs EXCEPT ![rec].fate = "recorded"]
          /\ audio_pc' = "lock_logger" /\ UNCHANGED rec
       \/ /\ recs' = [recs EXCEPT ![rec].fate = "failed"]
          /\ audio_pc' = "select" /\ rec' = 0
    /\ UNCHANGED <<cancel, main_pc, sensor_pc, data_logger, sensor_reader, nticks,
                   audio>>
    /\ UNCHANGED <<driverVars, logVars, adcVars>>

\* data_logger.lock().await completes
AudioLockLogger ==
    /\ audio_pc = "lock_logger" /\ data_logger = "free"
    /\ data_logger' = "audio"
    /\ audio_pc' = "add_entry"
    /\ UNCHANGED <<cancel, main_pc, sensor_pc, sensor_reader, nticks, recs, rec, audio>>
    /\ UNCHANGED <<driverVars, logVars, adcVars>>

\* if let Ok(_) = <guard>.add_audio_entry(rec) { info!(..) }, then the guard goes
AudioAddEntry ==
    /\ audio_pc = "add_entry" /\ data_logger = "audio"
    /\ \/ /\ audio' = Append(audio, rec)
          /\ recs' = [recs EXCEPT ![rec].fate = "logged"]
       \/ /\ recs' = [recs EXCEPT ![rec].fate = "unlogged"]
          /\ UNCHANGED audio
    /\ data_logger' = "free"
    /\ rec' = 0
    /\ audio_pc' = "select"
    /\ UNCHANGED <<cancel, main_pc, sensor_pc, sensor_reader, nticks>>
    /\ UNCHANGED <<driverVars, logVars, adcVars>>

SensorStep ==
    \/ SensorShutdown \/ SensorTick \/ SensorLockReader \/ SensorMeasure
    \/ SensorLockLogger \/ SensorAppend

AudioStep ==
    \/ AudioShutdown \/ AudioTick \/ AudioRecorded \/ AudioLockLogger
    \/ AudioAddEntry

NextTasks ==
    \/ MainCancel
    \/ MainJoinSensor
    \/ MainJoinAudio
    \/ SensorShutdown
    \/ SensorTick
    \/ SensorLockReader
    \/ SensorMeasure
    \/ SensorLockLogger
    \/ SensorAppend
    \/ AudioShutdown
    \/ AudioTick
    \/ AudioRecorded
    \/ AudioLockLogger
    \/ AudioAddEntry

SpecTasks == Init /\ [][NextTasks]_vars

\* the runtime runs every task that can go on; select! takes a ready branch
\* at random, so a branch that is ready again and again is taken in the end;
\* the tokio Mutex hands the lock to its waiters in turn
SpecTasksLive ==
    /\ Init /\ [][NextTasks]_vars
    /\ WF_vars(MainJoinSensor) /\ WF_vars(MainJoinAudio)
    /\ SF_vars(SensorShutdown) /\ SF_vars(AudioShutdown)
    /\ SF_vars(SensorLockReader) /\ SF_vars(SensorLockLogger)
    /\ SF_vars(AudioLockLogger)
    /\ WF_vars(SensorMeasure) /\ WF_vars(SensorAppend)
    /\ WF_vars(AudioRecorded) /\ WF_vars(AudioAddEntry)

(***************************************************************************)
(* MCP342x: the config byte, its setters and raw_read.                     *)
(***************************************************************************)
GAIN_MASK == 3
RES_MASK  == 12
CONT_MASK == 16
CH_MASK   == 96
NOT_READY == 128

\* a & b on unsigned values
RECURSIVE BitAnd(_, _)
BitAnd(a, b) ==
    IF a = 0 \/ b = 0 THEN 0
    ELSE (a % 2) * (b % 2) + 2 * BitAnd(a \div 2, b \div 2)

\* (self.config & !MASK) | (field as u8), field within the mask
SetField(c, mask, field) == (c - BitAnd(c, mask)) + field

\* enum Resolution, enum Gain, enum Channel as u8
Resolutions == {0, 4, 8, 12}
Gains == {0, 1, 2, 3}
Channels == {0, 32, 64, 96}

\* the match of raw_read on self.config & RES_MASK; 0 stands for the
\* unreachable!() arm
ResBits(c) ==
    LET r == BitAnd(c, RES_MASK)
    IN  CASE r = 0  -> 12
          [] r = 4  -> 14
          [] r = 8  -> 16
          [] r = 48 -> 18
          [] OTHER  -> 0

\* let bytes = if res_bits == 18 { 4 } else { 3 };
ReadBytes(rb) == IF rb = 18 THEN 4 ELSE 3

\* for &b in &buf[..bytes - 1] { count = (count << 8) | (b as i32); }
RECURSIVE Assemble(_)
Assemble(d) ==
    IF d = <<>> THEN 0
    ELSE Assemble(SubSeq(d, 1, Len(d) - 1)) * 256 + d[Len(d)]

\* if (count & sign_mask) != 0 { count = -((!count & mag_mask) + 1); }
SignExtend(count, rb) ==
    LET sign_mask == 2 ^ (rb - 1)
        mag_mask  == sign_mask - 1
    IN  IF BitAnd(count, sign_mask) # 0
        THEN 0 - ((mag_mask - BitAnd(count, mag_mask)) + 1)
        ELSE count

\* data bytes the device may put on the bus
AdcBytes == {0, 1, 8, 16, 32, 127, 128, 240, 255}

AdcData(n) == [1 .. n -> AdcBytes]

\* the config byte the device sends after the data: the one written, with
\* the not-ready bit set while the conversion is going on
AdcStatus(c) == {c, c + NOT_READY}

SetResolution ==
    /\ adc_pc = "idle"
    /\ \E res \in Resolutions : config' = SetField(config, RES_MASK, res)
    /\ UNCHANGED <<adc_pc, adc_buf, adc_ret>>
    /\ UNCHANGED <<driverVars, logVars, taskVars>>

SetGain ==
    /\ adc_pc = "idle"
    /\ \E gain \in Gains : config' = SetField(config, GAIN_MASK, gain)
    /\ UNCHANGED <<adc_pc, adc_buf, adc_ret>>
    /\ UNCHANGED <<driverVars, logVars, taskVars>>

SetChannel ==
    /\ adc_pc = "idle"
    /\ \E channel \in Channels : config' = SetField(config, CH_MASK, channel)
    /\ UNCHANGED <<adc_pc, adc_buf, adc_ret>>
    /\ UNCHANGED <<driverVars, logVars, taskVars>>

SetContinuousMode ==
    /\ adc_pc = "idle"
    /\ \E continuous \in BOOLEAN :
         config' = SetField(config, CONT_MASK, IF continuous THEN CONT_MASK ELSE 0)
    /\ UNCHANGED <<adc_pc, adc_buf, adc_ret>>
    /\ UNCHANGED <<driverVars, logVars, taskVars>>

\* raw_read is called: the match on the resolution bits
RawReadCall ==
    /\ adc_pc = "idle"
    /\ IF ResBits(config) = 0
       THEN adc_pc' = "done" /\ adc_ret' = Result("panic", 0)
       ELSE adc_pc' = "loop" /\ UNCHANGED adc_ret
    /\ UNCHANGED <<config, adc_buf>>
    /\ UNCHANGED <<driverVars, logVars, taskVars>>

\* one turn of the loop: write_read, then the ready test
RawReadTurn ==
    /\ adc_pc = "loop"
    /\ LET rb    == ResBits(config)
           bytes == ReadBytes(rb)
       IN  \/ /\ adc_ret' = Result("I2c", 0) /\ adc_pc' = "done"
              /\ UNCHANGED adc_buf
           \/ \E d \in AdcData(bytes - 1) : \E st \in AdcStatus(config) :
                /\ adc_buf' = d \o <<st>>
                /\ IF BitAnd(st, NOT_READY) = 0
                   THEN /\ adc_ret' = Result("Ok", <<SignExtend(Assemble(d), rb), st>>)
                        /\ adc_pc' = "done"
                   ELSE UNCHANGED <<adc_pc, adc_ret>>
    /\ UNCHANGED config
    /\ UNCHANGED <<driverVars, logVars, taskVars>>

NextAdc ==
    \/ SetResolution
    \/ SetGain
    \/ SetChannel
    \/ SetContinuousMode
    \/ RawReadCall
    \/ RawReadTurn

SpecAdc == Init /\ [][NextAdc]_vars

TypeOK ==
    /\ pc \in {"idle", "write", "loop", "read", "ret", "done"}
    /\ xres \in {"none", "Ok", "Timeout", "BadHeader", "Checksum", "SensorError", "Io"}
    /\ header_found \in BOOLEAN
    /\ rd \in {"none", "byte", "zero", "err"}
    /\ now - start \in 0 .. MaxElapsed

(***************************************************************************)
(* Properties.                                                             *)
(***************************************************************************)
\* xfer has returned to its caller
Returned == pc \in {"ret", "done"}

\* xfer has been handed the last byte the line had for it
Delivered == pc \notin {"idle", "write"} /\ stream = <<>>

SoftOutcomes == {"Timeout", "Io"}

\* C1 - Round trip: when the line delivers exactly the frame the encoder makes
\* for (group, command, payload) and that pair is the expected one, xfer never
\* rejects it; once it has been delivered xfer has returned Ok, and the frame
\* returned carries the original group, command and payload.
C1_RoundTrip ==
    scen.kind = "exact" =>
        /\ Returned => xres \in {"Ok"} \cup SoftOutcomes
        /\ Delivered => (Returned /\ xres = "Ok")
        /\ (Returned /\ xres = "Ok") =>
             /\ resp[3] = scen.con
             /\ resp[4] = scen.cmd
             /\ FramePayload(resp) = scen.data

C1_Witness ==
    /\ scen.kind = "exact" /\ pc = "done" /\ xres = "Ok"
    /\ Len(scen.data) > 255
    /\ FramePayload(resp) = scen.data

\* the noise prefix does not contain 0x53 0x59 consecutively
NoHeaderIn(n) == \A i \in 1 .. Len(n) - 1 : ~(n[i] = HEADER[1] /\ n[i + 1] = HEADER[2])

\* C2 - Resynchronisation: noise without the header pair followed by a valid
\* matching frame never makes xfer fail, and once the line has delivered the
\* frame xfer has returned exactly that frame.
C2_Resync ==
    (scen.kind = "noise" /\ NoHeaderIn(scen.pre)) =>
        /\ Returned => xres \in {"Ok"} \cup SoftOutcomes
        /\ Delivered => (Returned /\ xres = "Ok")
        /\ (Returned /\ xres = "Ok") => resp = scen.frame

\* C3 - Frame filtering: a well-formed frame for another pair followed by a
\* matching frame makes xfer return the matching frame only, and while xfer
\* decodes, the start of its deadline never moves.
C3_Filter ==
    /\ [](scen.kind = "filter" =>
            /\ Returned => xres \in {"Ok"} \cup SoftOutcomes
            /\ Delivered => (Returned /\ xres = "Ok")
            /\ (Returned /\ xres = "Ok") => resp = scen.frame)
    /\ [][(pc \in {"loop", "read"}) => (start' = start)]_vars

C3_Witness ==
    /\ scen.kind = "filter" /\ pc = "done" /\ xres = "Ok"
    /\ resp = scen.frame /\ now - start > 0

\* C4 - Sentinel precedence: a structurally and checksum-valid frame whose
\* group byte is 0xF5 makes xfer return SensorError.
C4_Sentinel ==
    scen.kind = "sentinel" =>
        /\ Returned => xres \in {"SensorError"} \cup SoftOutcomes
        /\ Delivered => (Returned /\ xres = "SensorError")

\* C5 - Tail corruption: a matching frame, valid but for one altered tail
\* byte, is never accepted; once delivered, xfer has returned BadHeader.
C5_TailCorruption ==
    scen.kind = "tail" =>
        /\ Returned => xres \in {"BadHeader"} \cup SoftOutcomes
        /\ Delivered => (Returned /\ xres = "BadHeader")

C5_Witness ==
    /\ scen.kind = "tail" /\ pc = "done" /\ xres = "BadHeader"
    /\ scen.stream[Len(scen.stream) - 1] # TAIL[1]
    /\ scen.stream[Len(scen.stream)] = TAIL[2]

\* C6 - Checksum corruption: a matching frame in which one payload byte was
\* changed and the checksum byte left alone is never accepted; once delivered,
\* xfer has returned Checksum.
C6_ChecksumCorruption ==
    scen.kind = "cksum" =>
        /\ Returned => xres \in {"Checksum"} \cup SoftOutcomes
        /\ Delivered => (Returned /\ xres = "Checksum")

C6_Witness ==
    /\ scen.kind = "cksum" /\ pc = "done" /\ xres = "Checksum"
    /\ Len(scen.frame) = 9 + MaxPayload

\* C7 - Timeout boundary: xfer returns Timeout only when the time elapsed
\* since decoding began exceeds TIMEOUT_TOTAL.
C7_TimeoutBoundary == xres = "Timeout" => now - start > TIMEOUT_TOTAL

C7_Witness ==
    /\ xres = "Timeout" /\ pc = "done"
    /\ now - start = TIMEOUT_TOTAL + 1

\* C8 (as claimed) - Deadline supersedes parsing: at a moment when more than
\* TIMEOUT_TOTAL has elapsed xfer returns no frame, no checksum error and no
\* malformed-frame error.
C8_DeadlineSupersedes ==
    (Returned /\ now - start > TIMEOUT_TOTAL) =>
        xres \notin {"Ok", "Checksum", "BadHeader"}

\* C8 (amended) - the deadline is checked at the top of the loop, before each
\* read: when the loop top is reached with more than TIMEOUT_TOTAL elapsed,
\* no read is started and xfer returns Timeout, whatever is buffered.
C8_CheckedBeforeRead ==
    [][(pc = "loop" /\ now - start > TIMEOUT_TOTAL /\ pc' # "loop")
          => (pc' = "ret" /\ xres' = "Timeout")]_vars

C8_Witness ==
    /\ xres = "Timeout" /\ pc = "done"
    /\ header_found /\ Len(rx) >= 6

\* C9 - Termination: every xfer call eventually returns, whatever the line
\* delivers, provided reads return and time advances.
C9_Termination == (pc = "write") ~> Returned

C9_Witness ==
    /\ scen.kind = "endless" /\ scen.cycle # <<>>
    /\ pc = "done" /\ xres = "Timeout"

RawFrames == {i \in 1 .. Len(tx) : tx[i].raw}

\* C10 - Mode short-circuit: when the reply to config_work_mode's query was
\* decoded and reports the requested mode, the call has written one request
\* frame, decoded one reply, written no raw mode-set frame, not slept, and
\* returns Ok.
C10_ShortCircuit ==
    (/\ op = "config_work_mode" /\ pc = "done"
     /\ scen.frame = Encode(2, 168, <<mode>>)
     /\ ndecoded >= 1) =>
        /\ ret = Result("Ok", 0)
        /\ nxfer = 1 /\ ndecoded = 1
        /\ Len(tx) = 1 /\ tx[1] = [raw |-> FALSE, bytes |-> Encode(2, 168, <<15>>)]
        /\ RawFrames = {}
        /\ sleeps = <<>>

C10_Witness ==
    /\ op = "config_work_mode" /\ pc = "done"
    /\ scen.frame = Encode(2, 168, <<mode>>)
    /\ ret = Result("Ok", 0) /\ nxfer = 1 /\ sleeps = <<>>

\* the mode the first reply of config_work_mode's scenario reports differs
\* from the requested one
ModeDiffers ==
    /\ op = "config_work_mode"
    /\ GetWorkMode(scen.frame).tag = "Ok"
    /\ GetWorkMode(scen.frame).val # mode

C12_OneQuery ==
    (ModeDiffers /\ RawFrames # {}) => (nxfer = 1 /\ Len(tx) = 2)

\* C12 (amended) - two query transactions precede the raw frame: the one of
\* get_work_mode and a second, identical one whose validated reply is
\* ignored; the raw frame follows the second directly.
C12_TwoQueries ==
    (ModeDiffers /\ RawFrames # {}) =>
        /\ nxfer = 2 /\ ndecoded = 2
        /\ Len(tx) = 3 /\ RawFrames = {3}
        /\ tx[1] = [raw |-> FALSE, bytes |-> <<83, 89, 2, 168, 0, 1, 15, 102, 84, 67>>]
        /\ tx[2] = tx[1]

C12_Witness ==
    /\ ModeDiffers /\ pc = "done" /\ ret.tag = "Ok"
    /\ Len(tx) = 3 /\ tx[3].raw /\ ~tx[2].raw /\ mode = 1

\* the call in progress is one of the public operations of C1001
PublicCall == opc \in {"typed", "begin", "get", "query"}

BootDelays == {i \in 1 .. Len(sleeps) : sleeps[i] = BOOT_DELAY}

\* C13 - Boot handshake: no frame is written unless the boot settle delay
\* has already taken place, and the delay takes place at most once in the
\* session.
C13_BootOnce ==
    PublicCall =>
        /\ tx # <<>> => BootDelays # {}
        /\ Cardinality(BootDelays) <= 1

\* C14 - Ours only: whenever xfer returns Ok, bytes 2 and 3 of the returned
\* frame are the group and command of the request xfer wrote in that call.
C14_OursOnly ==
    (pc = "ret" /\ xres = "Ok") =>
        /\ resp[3] = con /\ resp[4] = cmd
        /\ ~tx[Len(tx)].raw
        /\ resp[3] = tx[Len(tx)].bytes[3]
        /\ resp[4] = tx[Len(tx)].bytes[4]

C14_Witness ==
    /\ pc = "ret" /\ xres = "Ok" /\ scen.kind = "filter"
    /\ scen.pre[4] # cmd /\ Len(scen.pre) = 9 + MaxPayload
    /\ resp[4] = cmd

\* C15 - Typed outcomes: for every validated matching reply, whatever its
\* payload length, every read operation returns a value or a typed Error;
\* none aborts on an index outside the returned frame.
C15_TypedOutcomes ==
    (opc = "typed" /\ pc = "done" /\ scen.kind = "reply") => ret.tag # "panic"

\* C16 - No automatic retry: a call of an operation other than
\* config_work_mode writes its request frame at most once; the frame is out
\* whole before the first read; and the call returns, also after a timeout,
\* a checksum error, a malformed frame or a transport error, with that one
\* frame written (none when the write itself failed).
C16_NoRetry ==
    (opc \in {"xfer", "typed", "begin"}) =>
        /\ nxfer <= 1 /\ Len(tx) = nxfer
        /\ pc \in {"loop", "read"} =>
             (nxfer = 1 /\ Len(tx[1].bytes) = 9 + Len(data) /\ ~tx[1].raw)
        /\ stream # scen.stream => nxfer = 1
        /\ pc \in {"ret", "done"} => (nxfer = 1 \/ xres = "Io")

C16_Witness ==
    /\ opc = "typed" /\ pc = "done" /\ ret.tag = "Timeout"
    /\ nxfer = 1 /\ Len(tx) = 1 /\ stream # scen.stream

\* the sum of the bytes buf[lo..hi], and of all of buf, as natural numbers
RECURSIVE SumRange(_, _, _)
SumRange(buf, lo, hi) ==
    IF lo > hi THEN 0
    ELSE IF lo = hi THEN buf[lo]
    ELSE SumRange(buf, lo, (lo + hi) \div 2) + SumRange(buf, (lo + hi) \div 2 + 1, hi)

SumOf(buf) == SumRange(buf, 1, Len(buf))

\* C17 - Checksum: checksum returns the sum of the bytes of its argument
\* modulo 256, a value that fits in 8 bits; for 02 A8 00 01 0F it is 0xBA.
C17_Checksum ==
    (op = "checksum" /\ pc = "done") =>
        /\ ret.val = SumOf(data) % 256
        /\ ret.val \in Byte
        /\ data = <<2, 168, 0, 1, 15>> => ret.val = 186

C17_Witness ==
    /\ op = "checksum" /\ pc = "done"
    /\ data = <<2, 168, 0, 1, 15>> /\ ret.val = 186

Requests == {i \in 1 .. Len(tx) : ~tx[i].raw}

\* C18 - Encoding: every frame xfer writes for (group, command, payload of n
\* bytes) is 0x53 0x59, group, command, n as two bytes high byte first, the
\* payload, one byte equal to the sum of all bytes before it modulo 256,
\* 0x54 0x43; 9 + n bytes in all.
C18_Encoding ==
    \A i \in Requests :
        LET f == tx[i].bytes
            n == Len(data)
        IN  /\ Len(f) = 9 + n
            /\ f[1] = 83 /\ f[2] = 89
            /\ f[3] = con /\ f[4] = cmd
            /\ f[5] = n \div 256 /\ f[6] = n % 256
            /\ SubSeq(f, 7, 6 + n) = data
            /\ f[7 + n] = SumRange(f, 1, 6 + n) % 256
            /\ f[8 + n] = 84 /\ f[9 + n] = 67

C18_Witness ==
    /\ Requests # {} /\ Len(data) = LongLen
    /\ Len(tx[1].bytes) = 9 + LongLen /\ tx[1].bytes[5] = LongLen \div 256

\* C19 - Mode decoding: on a validated reply with at least one payload byte
\* get_work_mode returns Fall (1) when the first payload byte is 1, Sleep (2)
\* when it is 2, and UnexpectedMode carrying the byte for any other value.
C19_ModeDecoding ==
    (/\ op = "get_work_mode" /\ pc = "done" /\ xres = "Ok"
     /\ PayloadLen(resp) >= 1) =>
        LET code == FramePayload(resp)[1]
        IN  /\ code = 1 => ret = [tag |-> "Ok", val |-> 1]
            /\ code = 2 => ret = [tag |-> "Ok", val |-> 2]
            /\ code \notin {1, 2} => ret = [tag |-> "UnexpectedMode", val |-> code]

C19_Witness ==
    /\ op = "get_work_mode" /\ pc = "done" /\ xres = "Ok"
    /\ PayloadLen(resp) >= 1
    /\ ret = [tag |-> "UnexpectedMode", val |-> 255]

\* C20 - Logger buffering: the buffer always holds fewer than flush_every
\* samples; an append flushes exactly when its push brings the buffer to
\* flush_every samples, and then leaves the buffer empty.
C20_Buffering ==
    /\ Len(buffer) < 12
    /\ lres.op = "append" =>
         /\ lres.pushed <= 12
         /\ lres.flushed <=> (lres.pushed = 12)
         /\ Len(buffer) = IF lres.flushed THEN 0 ELSE lres.pushed

C20_Witness ==
    /\ lres.op = "append" /\ lres.flushed /\ lres.pushed = 12
    /\ buffer = <<>> /\ nappend > 12
    /\ datasets["timestamp"] # <<>>

\* C21 - Logger completeness: once the logger has been dropped with no
\* dataset operation having failed, each per-field dataset holds every
\* sample passed to append, once each and in append order, whatever appends
\* and explicit flushes came before.
C21_Completeness ==
    (dropped /\ nfail = 0) =>
        \A f \in FieldSet : datasets[f] = [i \in 1 .. nappend |-> i]

C21_Witness ==
    /\ dropped /\ nfail = 0 /\ nappend > 12
    /\ lres.op = "drop" /\ lres.pushed > 0
    /\ Len(datasets["image_path"]) = nappend

\* the line has handed xfer every byte of the scenario's first frame
PreDelivered ==
    /\ pc \notin {"idle", "write"}
    /\ Len(stream) <= Len(scen.stream) - Len(scen.pre)

\* C22 - Tail before filter: a complete frame for another (group, command)
\* whose last two bytes are not the tail magic makes xfer return BadHeader
\* at its last byte; it is not dropped as a foreign frame, and the matching
\* frame behind it stays unread.
C22_TailBeforeFilter ==
    scen.kind = "ftail" =>
        /\ Returned => xres \in {"BadHeader"} \cup SoftOutcomes
        /\ PreDelivered => (Returned /\ xres = "BadHeader" /\ stream = scen.frame)

C22_Witness ==
    /\ scen.kind = "ftail" /\ pc = "done" /\ xres = "BadHeader"
    /\ rx[3] # con /\ rx[Len(rx)] = TAIL[2] /\ rx[Len(rx) - 1] # TAIL[1]
    /\ stream = scen.frame

\* C23 - Checksum asymmetry: a complete frame with the right tail for another
\* (group, command) is dropped without its checksum being looked at: with a
\* wrong checksum byte it causes no error and xfer returns the valid matching
\* frame that follows; the same fault in a matching frame ends in Checksum.
C23_ChecksumAsymmetry ==
    /\ scen.kind = "fcksum" =>
         /\ Returned => xres \in {"Ok"} \cup SoftOutcomes
         /\ Delivered => (Returned /\ xres = "Ok")
         /\ (Returned /\ xres = "Ok") => resp = scen.frame
    /\ (scen.kind = "cksum" /\ Returned) => xres # "Ok"

C23_Witness ==
    /\ scen.kind = "fcksum" /\ pc = "done" /\ xres = "Ok"
    /\ resp = scen.frame
    /\ scen.pre[7 + PayloadLen(scen.pre)] # SumRange(scen.pre, 1, 6 + PayloadLen(scen.pre)) % 256

\* C24 - Commit after header: once both header bytes have matched, every
\* byte read is appended to the buffer, header and tail magic inside the
\* payload included; the buffer is emptied only when the byte completes a
\* frame of 9 + length bytes with the right tail for another (group, command).
C24_CommitAfterHeader ==
    [][(pc = "read" /\ header_found /\ stream' # stream) =>
         LET full == Append(rx, Head(Incoming))
         IN  \/ rx' = full
             \/ /\ rx' = <<>> /\ ~header_found'
                /\ Len(full) >= 9 /\ Len(full) = 9 + full[5] * 256 + full[6]
                /\ full[Len(full) - 1] = 84 /\ full[Len(full)] = 67
                /\ (full[3] # con \/ full[4] # cmd)]_vars

C24_Witness ==
    /\ scen.kind = "exact" /\ pc = "done" /\ xres = "Ok"
    /\ scen.data \in {<<83, 89>>, <<84, 67>>}
    /\ SubSeq(resp, 7, 8) = scen.data /\ Len(resp) = 11

\* number of bytes xfer has taken from the line in this run
Consumed == Len(scen.stream) - Len(stream)

\* C25 - Exact frame size: a frame xfer returns as Ok has exactly 9 + L
\* bytes, L being its bytes 4 and 5 read high byte first, and the last byte
\* xfer took from the line is that frame's second tail byte.
C25_ExactSize ==
    (pc = "ret" /\ xres = "Ok" /\ scen.cycle = <<>>) =>
        /\ Len(resp) = 9 + resp[5] * 256 + resp[6]
        /\ Consumed >= Len(resp)
        /\ SubSeq(scen.stream, Consumed - Len(resp) + 1, Consumed) = resp
        /\ resp[Len(resp)] = 67

C25_Witness ==
    /\ pc = "ret" /\ xres = "Ok" /\ op = "config_work_mode" /\ opc = "get"
    /\ stream # <<>> /\ Len(resp) = 10
    /\ Consumed = 10

\* C26 - Write failure: when writing or flushing the request fails, xfer
\* goes straight to its return with the Io error: it reads nothing from the
\* line and buffers nothing.
C26_WriteFailure ==
    /\ []((opc \in {"xfer", "typed", "begin", "get"} /\ Returned /\ nxfer = 0) =>
            (xres = "Io" /\ stream = scen.stream /\ rx = <<>>))
    /\ [][(pc = "write" /\ pc' # pc /\ tx' = tx) =>
            (pc' = "ret" /\ xres' = "Io" /\ stream' = stream)]_vars

C26_Witness ==
    /\ opc = "typed" /\ pc = "done" /\ nxfer = 0 /\ tx = <<>>
    /\ ret.tag = "Io" /\ stream = scen.stream /\ stream # <<>>

\* C27 - Read failure: a transport read that returns an error ends xfer at
\* once with Io, whatever is buffered and however little time has passed; a
\* read that returns no byte changes nothing and the loop polls again.
C27_ReadFailure ==
    /\ [](rd = "err" => (Returned /\ xres = "Io"))
    /\ [][(rd # "err" /\ rd' = "err") =>
            (pc = "read" /\ pc' = "ret" /\ rx' = rx /\ stream' = stream)]_vars
    /\ [](rd = "zero" => pc \in {"loop", "read"})
    /\ [][(rd' = "zero" /\ pc = "read") =>
            (pc' = "loop" /\ rx' = rx /\ xres' = xres /\ start' = start)]_vars

C27_Witness ==
    /\ rd = "err" /\ pc = "done" /\ ret.tag = "Io"
    /\ header_found /\ Len(rx) >= 7 /\ now - start < TIMEOUT_TOTAL

\* C28 - get_fall_data returns the big-endian 16-bit value of the first two
\* payload bytes of the reply; when the payload has exactly one byte the low
\* byte of the result is 0, so the result never depends on the frame's
\* checksum or tail bytes.
C28_FallData ==
    (op = "get_fall_data" /\ pc = "done" /\ ret.tag = "Ok") =>
        LET n == resp[5] * 256 + resp[6]
        IN  /\ n >= 2 => ret.val = resp[7] * 256 + resp[8]
            /\ n = 1 => ret.val = resp[7] * 256

\* C29 - Multi-byte decoding: with at least four payload bytes p0..p3 the
\* 32-bit readers return p0*2^24 + p1*2^16 + p2*2^8 + p3; with at least two
\* payload bytes the two-byte sleep metrics (WakeDuration, LightSleep,
\* DeepSleepDuration) return p0*2^8 + p1 and the one-byte metrics return p0.
C29_MultiByte ==
    (opc = "typed" /\ pc = "done" /\ xres = "Ok") =>
        LET n == resp[5] * 256 + resp[6]
        IN  /\ (/\ op \in {"track_frequency", "unmanned_time", "get_fall_time",
                           "static_residency_time", "accumulated_height_duration"}
                /\ n >= 4) =>
                  ret = [tag |-> "Ok",
                         val |-> <<resp[7] * 16777216 + resp[8] * 65536
                                   + resp[9] * 256 + resp[10]>>]
            /\ (op = "sleep_metric" /\ cmd \in {131, 132, 133} /\ n >= 2) =>
                  ret = [tag |-> "Ok", val |-> <<resp[7] * 256 + resp[8]>>]
            /\ (op = "sleep_metric" /\ cmd \in {140, 129, 130, 134, 142, 144}
                /\ n >= 2) =>
                  ret = [tag |-> "Ok", val |-> <<resp[7]>>]

C29_Witness ==
    /\ op = "get_fall_time" /\ pc = "done"
    /\ resp = <<83, 89, 131, 140, 0, 4, 1, 2, 3, 4, 201, 84, 67>>
    /\ ret = [tag |-> "Ok", val |-> <<16909060>>]

\* C30 - Configuration write encoding: dm_fall_config sends a payload of
\* exactly the width of the setting (1, 2 or 4 bytes) with the value MSB
\* first; read back big-endian the payload is the value modulo 2^(8*width)
\* (values here are below 2^31, so at width 4 that is the value itself), and
\* a value too wide for the setting is sent truncated with no error returned.
C30_ConfigEncoding ==
    (op = "dm_fall_config" /\ nxfer = 1) =>
        LET f == tx[1].bytes
            w == IF cmd \in {21, 20, 13, 11} THEN 1
                 ELSE IF cmd = 17 THEN 2 ELSE 4
        IN  /\ Len(f) = 9 + w /\ f[5] * 256 + f[6] = w
            /\ f[3] = 131 /\ f[4] = cmd
            /\ w = 1 => f[7] = value % 256
            /\ w = 2 => f[7] * 256 + f[8] = value % 65536
            /\ w = 4 => f[7] * 16777216 + f[8] * 65536 + f[9] * 256 + f[10] = value
            /\ (pc = "done" /\ xres = "Ok") => ret = [tag |-> "Ok", val |-> 0]

C30_Witness ==
    /\ op = "dm_fall_config" /\ cmd = 17 /\ value = 65537
    /\ pc = "done" /\ ret.tag = "Ok"
    /\ tx[1].bytes = <<83, 89, 131, 17, 0, 2, 0, 1, 67, 84, 67>>

\* the request frames of poll_sleep_data, in order: presence, movement,
\* heart rate, respiration value
PollFrames ==
    << <<83, 89, 128, 129, 0, 1, 15, 189, 84, 67>>,
       <<83, 89, 128, 130, 0, 1, 15, 190, 84, 67>>,
       <<83, 89, 133, 130, 0, 1, 15, 195, 84, 67>>,
       <<83, 89, 129, 130, 0, 1, 15, 191, 84, 67>> >>

\* the place of a request frame in that order, 0 for any other frame
PollIndex(f) ==
    IF \E k \in 1 .. 4 : PollFrames[k] = f
    THEN CHOOSE k \in 1 .. 4 : PollFrames[k] = f ELSE 0

\* C31 - poll_sleep_data always performs four transactions in the order
\* presence, movement, heart rate, respiration value; a failed one sets only
\* its own field to None and neither prevents nor changes the later ones.
C31_PollOrder ==
    /\ [](op = "poll_sleep_data" =>
            /\ Len(poll) <= 4 /\ (pc = "done" <=> Len(poll) = 4)
            /\ pc # "done" =>
                 <<83, 89, con, cmd>> = SubSeq(PollFrames[Len(poll) + 1], 1, 4)
            /\ \A i \in 1 .. Len(tx) :
                 /\ PollIndex(tx[i].bytes) \in 1 .. 4
                 /\ PollIndex(tx[i].bytes) <= Len(poll) + 1
                 /\ i > 1 => PollIndex(tx[i - 1].bytes) < PollIndex(tx[i].bytes)
            /\ \A k \in 1 .. Len(poll) :
                 poll[k].some => \E i \in 1 .. Len(tx) : tx[i].bytes = PollFrames[k]
            /\ pc = "done" => ret = [tag |-> "Ok", val |-> poll])
    /\ [][(opc = "poll" /\ pc = "ret" /\ pc' # "ret") =>
            (/\ poll' = Append(poll,
                   IF xres # "Ok" THEN [some |-> FALSE, val |-> 0]
                   ELSE IF Len(poll) = 0 THEN [some |-> TRUE, val |-> resp[7] # 0]
                   ELSE IF Len(poll) = 1 THEN [some |-> TRUE, val |-> resp[7] = 2]
                   ELSE [some |-> TRUE, val |-> resp[7]])
             /\ pc' = IF Len(poll) < 3 THEN "write" ELSE "done")]_vars
    /\ [][(opc = "poll" /\ pc # "ret") => (poll' = poll)]_vars

C31_Witness ==
    /\ op = "poll_sleep_data" /\ pc = "done" /\ Len(tx) = 4
    /\ ~poll[1].some /\ poll[2].some /\ poll[2].val = TRUE
    /\ ~poll[3].some /\ poll[4].some /\ poll[4].val = 15

\* C32 - The literal mode-set frame is well-formed for both modes (header
\* 53 59, group 02, command 08, length 1, payload the mode code, tail 54 43,
\* 10 bytes) but its checksum byte is 00, which is not the wraparound sum of
\* its first seven bytes: it is not the frame the encoder makes for
\* (0x02, 0x08, [mode]).
C32_LiteralFrame ==
    \A i \in RawFrames :
        LET f == tx[i].bytes
        IN  /\ Len(f) = 10 /\ mode \in {1, 2}
            /\ f[1] = 83 /\ f[2] = 89 /\ f[3] = 2 /\ f[4] = 8
            /\ f[5] * 256 + f[6] = 1 /\ f[7] = mode
            /\ f[9] = 84 /\ f[10] = 67
            /\ f[8] = 0
            /\ f[8] # (f[1] + f[2] + f[3] + f[4] + f[5] + f[6] + f[7]) % 256
            /\ f[8] # checksum(SubSeq(f, 1, 7))
            /\ f # Encode(2, 8, <<mode>>)
            /\ [f EXCEPT ![8] = 183 + mode] = Encode(2, 8, <<mode>>)

C32_Witness ==
    /\ op = "config_work_mode" /\ pc = "done" /\ mode = 1
    /\ RawFrames = {3} /\ tx[3].bytes[7] = 1 /\ tx[3].bytes[8] = 0

\* C33 - Stale replies: xfer does not discard input pending before it
\* writes, so a complete valid frame for (group, command) already waiting in
\* the receive stream when a call for that pair starts is what the call
\* returns (unless the transport fails or the deadline passes first).
C33_StaleReply ==
    /\ [][(pc = "write") => (stream' = stream /\ cycle' = cycle)]_vars
    /\ []((opc = "xfer" /\ scen.kind = "exact" /\ Returned) =>
            \/ xres \in {"Io", "Timeout"}
            \/ /\ xres = "Ok" /\ resp = scen.stream
               /\ resp[3] = con /\ resp[4] = cmd /\ stream = <<>>)

C33_Witness ==
    /\ opc = "xfer" /\ scen.kind = "exact" /\ pc = "done"
    /\ scen.stream = <<83, 89, 2, 168, 0, 1, 1, 88, 84, 67>>
    /\ ret.tag = "Ok" /\ resp = scen.stream /\ now = start

\* C34 - get_work_mode never returns Error::Length: every frame xfer returns
\* has at least 9 bytes, so index 6 always exists, and for a validated reply
\* with a zero-length payload the byte decoded as the mode code is the
\* frame's checksum byte.
C34_NeverLength ==
    /\ (Returned /\ xres = "Ok") => Len(resp) >= 9
    /\ (op \in {"get_work_mode", "config_work_mode"} /\ pc = "done") =>
          ret.tag # "Length"
    /\ (/\ op = "get_work_mode" /\ pc = "done" /\ xres = "Ok"
        /\ resp[5] = 0 /\ resp[6] = 0) =>
          /\ Len(resp) = 9
          /\ resp[7] = (resp[1] + resp[2] + resp[3] + resp[4]) % 256
          /\ ret = [tag |-> "UnexpectedMode", val |-> 86]

C34_Witness ==
    /\ op = "get_work_mode" /\ pc = "done"
    /\ resp = <<83, 89, 2, 168, 0, 0, 86, 84, 67>>
    /\ ret = [tag |-> "UnexpectedMode", val |-> 86]

\* sample n is a row of sequence s
Holds(s, n) == \E i \in 1 .. Len(s) : s[i] = n

\* C35 - When flush returns an error because a dataset write failed, the
\* buffer is already empty: the samples of that batch are dropped and no
\* later flush writes them, while the datasets written before the failure
\* keep the batch.
C35_FailedFlush ==
    /\ [](lres.res = "Err" => buffer = <<>>)
    /\ [][(nfail' = nfail + 1) =>
            (/\ buffer' = <<>>
             /\ LET batch == IF nappend' = nappend THEN buffer
                             ELSE Append(buffer, nappend')
                IN  \E k \in 0 .. 9 :
                      \A j \in 1 .. 9 :
                        /\ j < k => datasets'[Fields[j]] = datasets[Fields[j]] \o batch
                        /\ j > k => datasets'[Fields[j]] = datasets[Fields[j]]
                        /\ j >= k => \A i \in 1 .. Len(batch) :
                                       ~Holds(datasets'[Fields[j]], batch[i]))]_vars
    /\ [][/\ buffer' \in {buffer, <<>>, Append(buffer, nappend + 1)}
          /\ \A j \in 1 .. 9 :
               LET old == datasets[Fields[j]]
                   new == datasets'[Fields[j]]
               IN  new # old =>
                     /\ SubSeq(new, 1, Len(old)) = old
                     /\ \A i \in Len(old) + 1 .. Len(new) :
                          \/ new[i] = 0 \/ Holds(buffer, new[i])
                          \/ (nappend' = nappend + 1 /\ new[i] = nappend')]_vars

C35_Witness ==
    /\ nfail = 1 /\ lres.op = "flush" /\ lres.res = "Ok" /\ buffer = <<>>
    /\ datasets[Fields[1]] = <<1, 2, 3>>
    /\ datasets[Fields[9]] = <<0, 0, 3>>

\* both loops have exited and sleep_tracker has returned Ok
AllExited ==
    sensor_pc = "exited" /\ audio_pc = "exited" /\ main_pc = "returned"

\* C36 (as claimed) - Shutdown: once cancellation is signalled, sensor_loop
\* and audio_loop each eventually exit and sleep_tracker returns Ok; a
\* recording that started before the cancellation is completed and its audio
\* entry is logged before audio_loop exits.
C36_Shutdown ==
    /\ cancel ~> AllExited
    /\ [](audio_pc = "exited" =>
            \A i \in 1 .. Len(recs) : recs[i].early => Holds(audio, i))

\* C36 (amended) - once cancellation is signalled both loops eventually exit
\* and sleep_tracker returns Ok; a recording that started before the
\* cancellation is never cut short: it runs until it returns, and when it
\* returns Ok add_audio_entry is called with it before audio_loop exits; its
\* entry is in the file exactly when that call succeeded.
C36_ShutdownAttempted ==
    /\ cancel ~> AllExited
    /\ [](audio_pc = "exited" =>
            \A i \in 1 .. Len(recs) :
                recs[i].early =>
                    /\ recs[i].fate \in {"failed", "logged", "unlogged"}
                    /\ recs[i].fate = "logged" <=> Holds(audio, i))
    /\ [][(audio_pc = "recording" /\ audio_pc' # "recording") =>
            (recs'[rec].fate \in {"recorded", "failed"})]_vars

C36_Witness ==
    /\ cancel /\ AllExited
    /\ recs = <<[early |-> TRUE, fate |-> "logged"]>> /\ audio = <<1>>

\* C37 - Shared logger access: in every interleaving at most one task is
\* inside a SleepDataLogger operation (append or add_audio_entry);
\* sensor_loop never holds the sensor_reader lock while it waits for the
\* data_logger lock; and no reachable state is a deadlock of the two tasks:
\* a task that waits for a lock waits for one whose holder can go on.
C37_SharedLogger ==
    /\ ~(sensor_pc = "append" /\ audio_pc = "add_entry")
    /\ (sensor_pc = "append") <=> (data_logger = "sensor")
    /\ (audio_pc = "add_entry") <=> (data_logger = "audio")
    /\ sensor_pc \in {"lock_logger", "append"} => sensor_reader = "free"
    /\ sensor_pc = "lock_reader" => ENABLED SensorLockReader
    /\ sensor_pc = "lock_logger" =>
          \/ ENABLED SensorLockLogger
          \/ data_logger = "audio" /\ ENABLED AudioAddEntry
    /\ audio_pc = "lock_logger" =>
          \/ ENABLED AudioLockLogger
          \/ data_logger = "sensor" /\ ENABLED SensorAppend

C37_Witness ==
    /\ sensor_pc = "lock_logger" /\ audio_pc = "add_entry"
    /\ data_logger = "audio" /\ sensor_reader = "free" /\ ~cancel

\* C38 - For each of the four Resolution settings set_resolution can store
\* (Bits12, Bits14, Bits16, Bits18), raw_read selects the matching sample
\* width, reads 3 bytes (4 bytes for 18 bits) and returns a count once the
\* device reports ready; it reaches no unreachable!() arm.
C38_AllResolutions ==
    adc_pc = "done" =>
        /\ adc_ret.tag \in {"Ok", "I2c"}
        /\ adc_ret.tag = "Ok" =>
             /\ (config \div 4) % 4 = 3 => Len(adc_buf) = 4
             /\ (config \div 4) % 4 # 3 => Len(adc_buf) = 3
             /\ adc_buf[Len(adc_buf)] < 128

\* the resolution in bits of a config byte whose resolution field is not 3
BitsOf(c) == 12 + 2 * ((c \div 4) % 4)

\* the two's-complement value of the low n bits of w
TwosComplement(w, n) ==
    LET low == w % (2 ^ n)
    IN  IF low >= 2 ^ (n - 1) THEN low - 2 ^ n ELSE low

\* raw_read has returned a count at 12, 14 or 16 bits
CountReturned ==
    adc_pc = "done" /\ adc_ret.tag = "Ok" /\ (config \div 4) % 4 # 3

\* C39 - Sign extension: at 12-, 14- and 16-bit resolution and
\* for every pair of data bytes read from the device, the count returned by
\* raw_read is the two's-complement value of the low res_bits bits of the
\* big-endian 16-bit data word, and so lies in
\* [-2^(res_bits-1), 2^(res_bits-1) - 1].
C39_SignExtension ==
    CountReturned =>
        LET n     == BitsOf(config)
            word  == adc_buf[1] * 256 + adc_buf[2]
            count == adc_ret.val[1]
        IN  /\ count = TwosComplement(word, n)
            /\ count >= 0 - 2 ^ (n - 1) /\ count <= 2 ^ (n - 1) - 1

====
